---------------------------- MODULE Spec2Model ----------------------------
(***************************************************************************)
(* Model of atomic_trades: the condition/command data model, the           *)
(* aggregation and evaluation engine, the execute-till order state machine *)
(* and the orchestrator execute_commands.                                  *)
(*                                                                         *)
(* Amounts and prices are exact rationals <<n, d>> (d > 0, lowest terms).  *)
(* Time is counted in ticks of 0.1 s.  A symbol 'ETH/BTC' is the pair      *)
(* <<"ETH", "BTC">>; the absent symbol (None) is <<>>.  The absent         *)
(* currency (None) is the string "None"; the absent deadline (None) is     *)
(* NoTimeout.                                                              *)
(***************************************************************************)
EXTENDS Integers, Sequences, FiniteSets, TLC

VARIABLES
    cmds,       \* the batch handed to execute_commands (tuple of command objects)
    markets,    \* per venue: is exchange.markets loaded, and the load_markets() calls issued
    pc,         \* position of execute_commands
    condmap,    \* conditions_map of the pass in progress: venue -> set of condition objects
    tasks,      \* the pass's Gateway read tasks: <<venue, method>> -> [st, params]
    reads,      \* every Gateway read issued: <<phase, venue, method>> -> sequence of params
    resp,       \* condition_responses_map of the pass in progress: venue -> (method -> response)
    result,     \* phase -> [successful, failed] as returned by _evaluate_conditions
    cmd_resp,   \* per command: [pre, post] = its pre/post_condition_responses
    attr,       \* attributes set by evaluate(): object id -> [responses, amount]
    cst,        \* per command: state of its execute() coroutine
    outcome,    \* how execute_commands ended: [kind, failed_conditions, failed_commands_dict]
    call,       \* the constructor or conversion applied on its own: [fn, args, ret]
    run         \* state of human_execute_commands_in_sequence

\* the state of execute_commands
engine == <<cmds, markets, pc, condmap, tasks, reads, resp, result, cmd_resp, attr, cst, outcome>>

vars == <<cmds, markets, pc, condmap, tasks, reads, resp, result, cmd_resp, attr, cst, outcome,
          call, run>>

---------------------------------------------------------------------------
(* Bounds of the model *)

\* finite deadlines used by the commands of the model, in ticks
ShortDeadline == 1
LongDeadline == 7
\* longest time a fetch_order_status round trip may take, in ticks
MaxLatency == 1

\* amounts handed to a conversion are the halves from -MaxAmount/2 to MaxAmount/2
MaxAmount == 4
\* ask and bid prices of a ticker are the halves from 1/2 to MaxPrice/2
MaxPrice == 3

\* the sequential runner is given up to MaxCount rounds and MaxBatches
\* batches; of the retries of failed preconditions, which the code does not
\* bound, MaxRetries are followed, so execute_commands is called at most
\* MaxCalls times
MaxCount == 2
MaxBatches == 2
MaxRetries == 1
MaxCalls == MaxCount * MaxBatches + MaxRetries

(* Program constants *)

\* polling_interval = 0.3 s
PollingInterval == 3
\* LIMIT_ORDER_PORTION_FROM_SPREAD
LIMIT_ORDER_PORTION_FROM_SPREAD == 2

None == "None"
NoTimeout == -1
NoSymbol == <<>>

---------------------------------------------------------------------------
(* Exact rational arithmetic standing for Python's numbers *)

RECURSIVE GCD(_, _)
GCD(a, b) == IF b = 0 THEN a ELSE GCD(b, a % b)

Abs(n) == IF n < 0 THEN -n ELSE n

Rat(n, d) ==
    LET g == GCD(Abs(n), Abs(d))
        s == IF d < 0 THEN -1 ELSE 1
    IN  <<(s * n) \div g, (s * d) \div g>>

Num(n) == <<n, 1>>
Zero == <<0, 1>>
RAdd(a, b) == Rat(a[1] * b[2] + b[1] * a[2], a[2] * b[2])
RSub(a, b) == Rat(a[1] * b[2] - b[1] * a[2], a[2] * b[2])
RMul(a, b) == Rat(a[1] * b[1], a[2] * b[2])
RDiv(a, b) == Rat(a[1] * b[2], a[2] * b[1])
RLt(a, b) == a[1] * b[2] < b[1] * a[2]
RLe(a, b) == a[1] * b[2] <= b[1] * a[2]

\* the amounts and the prices of the bounds
Amounts == {Rat(n, 2) : n \in (-MaxAmount)..MaxAmount}
Prices == {Rat(n, 2) : n \in 1..MaxPrice}

---------------------------------------------------------------------------
(* The Gateway: venues, market registry, possible responses *)

Venues == {"FTX", "Binance"}
Currencies == {"USD", "BTC", "ETH"}

\* exchange.markets (tests/base.py markets_data restricted to three currencies)
Markets == {<<"BTC", "USD">>, <<"ETH", "USD">>, <<"ETH", "BTC">>}

\* Gateway objects whose market registry differs from Markets (a test sets
\* exchange.markets as it needs, tests/base.py:14); the name tells the registry
StubMarkets ==
    [e \in {"no markets", "BTC/USD", "USD/BTC", "BTC/USD USD/BTC", "ETH/USD ETH/BTC"} |->
        CASE e = "no markets" -> {}
          [] e = "BTC/USD" -> {<<"BTC", "USD">>}
          [] e = "USD/BTC" -> {<<"USD", "BTC">>}
          [] e = "BTC/USD USD/BTC" -> {<<"BTC", "USD">>, <<"USD", "BTC">>}
          [] e = "ETH/USD ETH/BTC" -> {<<"ETH", "USD">>, <<"ETH", "BTC">>}]

\* exchange.markets once loaded
exchange_markets(exchange) ==
    IF exchange \in DOMAIN StubMarkets THEN StubMarkets[exchange] ELSE Markets

\* the Gateway objects of the model
Exchanges == Venues \cup DOMAIN StubMarkets

\* symbols of futures; 'ETH-0625' is the pair <<"ETH", "-0625">>
Futures == {<<"ETH", "-0625">>, <<"BTC", "-1231">>}

\* fetch_balance()['free'] snapshots the Gateway may answer with
BalanceSet ==
    { [c \in Currencies |-> CASE c = "USD" -> Num(68) [] c = "BTC" -> Num(1) [] OTHER -> Num(2)],
      [c \in Currencies |-> CASE c = "USD" -> Num(68) [] c = "BTC" -> <<3, 2>> [] OTHER -> Num(0)] }

\* fetch_tickers() snapshots the Gateway may answer with (ask >= bid)
TickerSet ==
    { [s \in Markets \cup Futures |->
          CASE s = <<"ETH", "BTC">> -> [ask |-> Num(4), bid |-> Num(2)]
            [] s = <<"BTC", "USD">> -> [ask |-> Num(10), bid |-> Num(10)]
            [] OTHER -> [ask |-> Num(40), bid |-> Num(20)]] }

\* fetch_positions() snapshots the Gateway may answer with (tests/base.py)
PositionSet ==
    { <<[future |-> <<"ETH", "-0625">>, netSize |-> Num(-4)],
        [future |-> <<"BTC", "-1231">>, netSize |-> Zero]>> }

\* the Gateway reads a condition may declare
Methods == {"fetch_balance", "fetch_tickers", "fetch_positions"}

Restrict(f, S) == [x \in S |-> f[x]]

EmptyMap == [x \in {} |-> 0]

\* the answers the Gateway may give to one read
GatewayResponses(method, params) ==
    CASE method = "fetch_balance" -> {[free |-> b] : b \in BalanceSet}
      [] method = "fetch_tickers" ->
            {Restrict(t, params \cap (Markets \cup Futures)) : t \in TickerSet}
      [] method = "fetch_positions" ->
            {SelectSeq(p, LAMBDA r : r.future \in params) : p \in PositionSet}

---------------------------------------------------------------------------
(* utils.py *)

get_currency_balance(ccxt_responses, currency) ==
    LET free == ccxt_responses["fetch_balance"].free
    IN  IF currency \in DOMAIN free THEN free[currency] ELSE Zero

\* the netSize of the first position of the list whose future is the symbol
RECURSIVE FirstNetSize(_, _)
FirstNetSize(positions, symbol) ==
    IF positions = <<>> THEN Zero
    ELSE IF Head(positions).future = symbol THEN Head(positions).netSize
    ELSE FirstNetSize(Tail(positions), symbol)

get_position_size(ccxt_responses, symbol) ==
    FirstNetSize(ccxt_responses["fetch_positions"], symbol)

\* the leading letters of a symbol
get_currency_from_symbol(symbol) == symbol[1]

---------------------------------------------------------------------------
(* conditions.py *)

comparator_map(c) ==
    CASE c = "gte" -> ">="
      [] c = "gt" -> ">"
      [] c = "lte" -> "<="
      [] c = "lt" -> "<"
      [] c = "eq" -> "=="
      [] c = "neq" -> "!="
      [] OTHER -> c

_compare(current, comparator, threshold_value) ==
    CASE comparator = ">" -> RLt(threshold_value, current)
      [] comparator = ">=" -> RLe(threshold_value, current)
      [] comparator = "<" -> RLt(current, threshold_value)
      [] comparator = "<=" -> RLe(current, threshold_value)
      [] comparator = "==" -> current = threshold_value
      [] comparator = "!=" -> current # threshold_value

\* mutant: the ordering from/to is looked up before the ordering to/from
_get_converting_symbol_and_reversed_from_to_first(exchange, from_currency, to_currency) ==
    IF from_currency = to_currency THEN <<NoSymbol, FALSE, TRUE>>
    ELSE IF <<from_currency, to_currency>> \in exchange_markets(exchange)
         THEN <<(<<from_currency, to_currency>>), TRUE, TRUE>>
    ELSE IF <<to_currency, from_currency>> \in exchange_markets(exchange)
         THEN <<(<<to_currency, from_currency>>), FALSE, TRUE>>
    ELSE <<NoSymbol, FALSE, FALSE>>

\* CurrencyConversionMixin._get_converting_symbol_and_reversed; the third
\* component tells whether the pair resolves (else MarketDoesNotExistsError)
_get_converting_symbol_and_reversed(exchange, from_currency, to_currency) ==
    IF from_currency = to_currency THEN <<NoSymbol, FALSE, TRUE>>
    ELSE IF <<to_currency, from_currency>> \in exchange_markets(exchange)
         THEN <<(<<to_currency, from_currency>>), FALSE, TRUE>>
    ELSE IF <<from_currency, to_currency>> \in exchange_markets(exchange)
         THEN <<(<<from_currency, to_currency>>), TRUE, TRUE>>
    ELSE <<NoSymbol, FALSE, FALSE>>

\* mutant: the price sides are swapped
convert_amount_sides_swapped(self, amount, responses) ==
    IF self.from_currency = self.to_currency THEN amount
    ELSE LET fetched_symbol == responses["fetch_tickers"][self.converting_symbol]
         IN  IF self.is_symbol_reversed
             THEN RMul(amount, fetched_symbol.bid)
             ELSE RMul(RDiv(Num(1), fetched_symbol.ask), amount)

\* mutant: both directions convert at the bid price
convert_amount_at_bid(self, amount, responses) ==
    IF self.from_currency = self.to_currency THEN amount
    ELSE LET fetched_symbol == responses["fetch_tickers"][self.converting_symbol]
         IN  IF self.is_symbol_reversed
             THEN RMul(amount, fetched_symbol.bid)
             ELSE RMul(RDiv(Num(1), fetched_symbol.bid), amount)

\* CurrencyConversionMixin.convert_amount on an object whose responses are set
convert_amount(self, amount, responses) ==
    IF self.from_currency = self.to_currency THEN amount
    ELSE LET fetched_symbol == responses["fetch_tickers"][self.converting_symbol]
         IN  IF self.is_symbol_reversed
             THEN RMul(amount, fetched_symbol.ask)
             ELSE RMul(RDiv(Num(1), fetched_symbol.bid), amount)

\* the fields of a condition object; fields a class does not have are None
\* (currency is from_currency for a CurrencyConversion)
ConditionRecord(cls, exchange, comparator, comparable_value, params, currency, in_currency, symbol, to_currency, oid) ==
    LET sr == _get_converting_symbol_and_reversed(exchange, currency, to_currency)
    IN  [cls |-> cls, exchange |-> exchange,
         comparator |-> comparator, comparable_value |-> comparable_value,
         additional_hashable_params |-> params,
         currency |-> currency, in_currency |-> in_currency, symbol |-> symbol,
         from_currency |-> currency, to_currency |-> to_currency,
         converting_symbol |-> sr[1], is_symbol_reversed |-> sr[2], oid |-> oid]

\* BalanceCondition.__init__
BalanceCondition(exchange, currency, comparator, comparable_value, in_currency, oid) ==
    LET inc == IF in_currency = currency THEN None ELSE in_currency
        to == IF in_currency = None THEN currency ELSE in_currency
    IN  ConditionRecord("BalanceCondition", exchange, comparator_map(comparator), comparable_value,
                        <<currency, NoSymbol, inc>>, currency, inc, NoSymbol, to, oid)

\* CurrencyConversion.__init__
CurrencyConversion(exchange, from_currency, to_currency, oid) ==
    ConditionRecord("CurrencyConversion", exchange, None, Zero, <<>>,
                    from_currency, None, NoSymbol, to_currency, oid)

\* PositionFetch.__init__: in_currency is None whenever the symbol has a currency
PositionFetch(exchange, symbol, in_currency, oid) ==
    LET currency == get_currency_from_symbol(symbol)
        to == IF in_currency = None THEN currency ELSE in_currency
    IN  ConditionRecord("PositionFetch", exchange, None, Zero, <<>>,
                        currency, None, symbol, to, oid)

\* PositionCondition.__init__
PositionCondition(exchange, symbol, comparator, comparable_value, in_currency, oid) ==
    LET currency == get_currency_from_symbol(symbol)
        to == IF in_currency = None THEN currency ELSE in_currency
    IN  ConditionRecord("PositionCondition", exchange, comparator_map(comparator), comparable_value,
                        <<None, symbol, None>>, currency, None, symbol, to, oid)

\* the classes derived from BaseCondition
BaseConditions == {"BalanceCondition", "PositionCondition"}

\* BaseCondition.__eq__ / __hash__; objects that are no BaseCondition compare by identity
CondEq(a, b) ==
    IF a.cls \in BaseConditions /\ b.cls \in BaseConditions
    THEN /\ a.cls = b.cls
         /\ a.exchange = b.exchange
         /\ a.additional_hashable_params = b.additional_hashable_params
         /\ a.comparator = b.comparator
         /\ a.comparable_value = b.comparable_value
    ELSE a.oid = b.oid

\* the structural identity of a condition (what __hash__ hashes)
CondKey(c) ==
    <<c.cls, c.exchange, c.additional_hashable_params, c.comparator, c.comparable_value>>

\* mutant: a BalanceCondition and a CurrencyConversion declare fetch_tickers
\* also when they convert a currency into itself
ccxt_methods_always_tickers(c) ==
    CASE c.cls = "BalanceCondition" ->
            [m \in {"fetch_balance", "fetch_tickers"} |->
                IF m = "fetch_balance" THEN {} ELSE {c.converting_symbol}]
      [] c.cls = "CurrencyConversion" -> [m \in {"fetch_tickers"} |-> {c.converting_symbol}]
      [] c.cls \in {"PositionFetch", "PositionCondition"} ->
            [m \in {"fetch_positions", "fetch_tickers"} |->
                IF m = "fetch_positions" THEN {c.symbol}
                ELSE {c.symbol} \cup (IF c.in_currency # None /\ c.converting_symbol # NoSymbol
                                      THEN {c.converting_symbol} ELSE {})]
      [] OTHER -> EmptyMap

\* ccxt_methods(): method -> set of symbols ({} stands for no parameters)
ccxt_methods(c) ==
    CASE c.cls = "BalanceCondition" ->
            IF c.in_currency # None
            THEN [m \in {"fetch_balance", "fetch_tickers"} |->
                     IF m = "fetch_balance" THEN {} ELSE {c.converting_symbol}]
            ELSE [m \in {"fetch_balance"} |-> {}]
      [] c.cls = "CurrencyConversion" ->
            IF c.from_currency # c.to_currency
            THEN [m \in {"fetch_tickers"} |-> {c.converting_symbol}]
            ELSE EmptyMap
      [] c.cls \in {"PositionFetch", "PositionCondition"} ->
            [m \in {"fetch_positions", "fetch_tickers"} |->
                IF m = "fetch_positions" THEN {c.symbol}
                ELSE {c.symbol} \cup (IF c.in_currency # None /\ c.converting_symbol # NoSymbol
                                      THEN {c.converting_symbol} ELSE {})]
      [] OTHER -> EmptyMap

\* BalanceCondition.evaluate: the attribute it sets
balance_amount_in_currency(c, responses) ==
    convert_amount(c, get_currency_balance(responses, c.currency), responses)

\* PositionFetch.evaluate, PositionCondition.evaluate: the attribute they set
position_amount_in_currency(c, responses) ==
    convert_amount(c, get_position_size(responses, c.symbol), responses)

\* Python's True and False as returned by evaluate()
PyBool(b) == IF b THEN "True" ELSE "False"

\* conditions.py:52-63: the comparators _compare knows
ValidComparators == {">", ">=", "<", "<=", "==", "!="}

\* condition.evaluate(responses): "True", "False" or None, or the error
\* _compare raises
evaluate(c, responses) ==
    CASE c.cls \in BaseConditions /\ c.comparator \notin ValidComparators ->
            "InvalidConditionComparatorError"
      [] c.cls = "BalanceCondition" ->
            PyBool(_compare(balance_amount_in_currency(c, responses), c.comparator, c.comparable_value))
      [] c.cls = "PositionCondition" ->
            PyBool(_compare(position_amount_in_currency(c, responses), c.comparator, c.comparable_value))
      [] OTHER -> None

---------------------------------------------------------------------------
(* commands.py and tests/base.py: the command objects of a batch *)

\* the fields of a command object; fields a class does not have are None
\* (amount Zero, margin FALSE)
CommandRecord(cls, exchange, from_currency, to_currency, execute_till, test_conditions) ==
    [cls |-> cls, exchange |-> exchange, from_currency |-> from_currency,
     to_currency |-> to_currency, execute_till |-> execute_till,
     test_conditions |-> test_conditions,
     amount |-> Zero, in_currency |-> None, margin |-> FALSE]

\* BaseCommand.__init__: no conditions, execute() raises NotImplementedError
BaseCommand(exchange) == CommandRecord("BaseCommand", exchange, None, None, 0, {})

\* BaseTestCase.create_command: a BaseCommand with the given pre_conditions;
\* each is [slot, cls, currency, symbol, comparator, value, in_currency]
TestCommand(exchange, pre_conditions) ==
    CommandRecord("TestCommand", exchange, None, None, 0, pre_conditions)

\* ExchangeAllCurrency.__init__ (set_timeout asserts execute_till is None or >= 0)
ExchangeAllCurrency(exchange, from_currency, to_currency, execute_till) ==
    CommandRecord("ExchangeAllCurrency", exchange, from_currency, to_currency, execute_till, {})

\* ExchangeCurrency.__init__ when it returns
ExchangeCurrency(exchange, from_currency, to_currency, amount, in_currency, execute_till, margin) ==
    [CommandRecord("ExchangeCurrency", exchange, from_currency, to_currency, execute_till, {})
        EXCEPT !.amount = amount,
               !.in_currency = IF to_currency = in_currency THEN None ELSE in_currency,
               !.margin = margin]

\* `self.in_currency or self.to_currency`
in_currency_or_to_currency(command) ==
    IF command.in_currency # None THEN command.in_currency ELSE command.to_currency

\* ExchangeCurrency.trading_symbol_conversion
trading_symbol_conversion(command, i) ==
    CurrencyConversion(command.exchange, command.from_currency, command.to_currency,
                       <<i, "trading_symbol_conversion">>)

\* ExchangeCurrency.buying_currency_conversion
buying_currency_conversion(command, i) ==
    CurrencyConversion(command.exchange, in_currency_or_to_currency(command),
                       IF trading_symbol_conversion(command, i).is_symbol_reversed
                       THEN command.from_currency ELSE command.to_currency,
                       <<i, "buying_currency_conversion">>)

\* set_from_to_currency raises MarketDoesNotExistsError for the pair
Unresolvable(exchange, from_currency, to_currency) ==
    ~_get_converting_symbol_and_reversed(exchange, from_currency, to_currency)[3]

\* the exception ExchangeCurrency.__init__ raises, None when it returns
ExchangeCurrency_raises(exchange, from_currency, to_currency, amount, in_currency, execute_till, margin) ==
    LET command == ExchangeCurrency(exchange, from_currency, to_currency, amount, in_currency,
                                    execute_till, margin)
        buying == buying_currency_conversion(command, 0)
    IN  IF ~RLt(Zero, amount) THEN "AssertionError"
        ELSE IF Unresolvable(exchange, from_currency, to_currency) THEN "MarketDoesNotExistsError"
        ELSE IF Unresolvable(exchange, buying.from_currency, buying.to_currency)
             THEN "MarketDoesNotExistsError"
        ELSE None

\* the exception ExchangeAllCurrency.__init__ raises, None when it returns
ExchangeAllCurrency_raises(exchange, from_currency, to_currency, execute_till) ==
    IF Unresolvable(exchange, from_currency, to_currency) THEN "MarketDoesNotExistsError"
    ELSE None

\* the condition object a test hands to create_command
NewCondition(exchange, p, oid) ==
    CASE p.cls = "BalanceCondition" ->
            BalanceCondition(exchange, p.currency, p.comparator, p.value, p.in_currency, oid)
      [] p.cls = "CurrencyConversion" ->
            CurrencyConversion(exchange, p.currency, p.in_currency, oid)
      [] p.cls = "PositionFetch" ->
            PositionFetch(exchange, p.symbol, p.in_currency, oid)
      [] p.cls = "PositionCondition" ->
            PositionCondition(exchange, p.symbol, p.comparator, p.value, p.in_currency, oid)

\* ExchangeAllCurrency.selling_currency_balance_condition of command i of the batch
selling_currency_balance_condition(batch, i) ==
    BalanceCondition(batch[i].exchange, batch[i].from_currency, ">", Zero,
                     batch[i].to_currency, <<i, "selling_currency_balance_condition">>)

\* mutant: the balance has to exceed the amount
ExchangeCurrency_balance_condition_strict(command, i) ==
    BalanceCondition(command.exchange, command.from_currency, ">", command.amount,
                     in_currency_or_to_currency(command),
                     <<i, "selling_currency_balance_condition">>)

\* ExchangeCurrency.pre_conditions: the BalanceCondition it builds at each call
ExchangeCurrency_balance_condition(command, i) ==
    BalanceCondition(command.exchange, command.from_currency, ">=", command.amount,
                     in_currency_or_to_currency(command),
                     <<i, "selling_currency_balance_condition">>)

\* the exception command.pre_conditions() raises, None when it returns
pre_conditions_raises(command) ==
    IF /\ command.cls = "ExchangeCurrency"
       /\ ~command.margin
       /\ Unresolvable(command.exchange, command.from_currency, in_currency_or_to_currency(command))
    THEN "MarketDoesNotExistsError"
    ELSE None

\* command.pre_conditions() of command i
pre_conditions(batch, i) ==
    CASE batch[i].cls = "ExchangeAllCurrency" -> {selling_currency_balance_condition(batch, i)}
      [] batch[i].cls = "ExchangeCurrency" ->
            {buying_currency_conversion(batch[i], i)}
            \cup (IF batch[i].margin THEN {} ELSE {ExchangeCurrency_balance_condition(batch[i], i)})
      [] batch[i].cls = "TestCommand" ->
            {NewCondition(batch[i].exchange, p, <<i, p.slot>>) : p \in batch[i].test_conditions}
      [] OTHER -> {}

\* mutant: the balance is fetched again and the Gateway answers another snapshot
initial_currency_balance_fetched_again(pre_condition_responses, currency) ==
    LET free == CHOOSE b \in BalanceSet : b # pre_condition_responses["fetch_balance"].free
    IN  free[currency]

\* BaseExchangeCurrencyCommand.initial_currency_balance
initial_currency_balance(pre_condition_responses, currency) ==
    get_currency_balance(pre_condition_responses, currency)

\* the exception command.post_conditions() raises, None when it returns:
\* get_currency_balance reads ccxt_responses['fetch_balance']
post_conditions_raises(command, pre_condition_responses) ==
    IF /\ command.cls \in {"ExchangeAllCurrency", "ExchangeCurrency"}
       /\ "fetch_balance" \notin DOMAIN pre_condition_responses
    THEN "KeyError"
    ELSE None

\* command.post_conditions() of command i, given its pre_condition_responses
post_conditions(batch, i, pre_condition_responses) ==
    IF batch[i].cls \in {"ExchangeAllCurrency", "ExchangeCurrency"}
    THEN {BalanceCondition(batch[i].exchange, batch[i].from_currency, "<",
                           initial_currency_balance(pre_condition_responses, batch[i].from_currency),
                           None, <<i, "post_from">>),
          BalanceCondition(batch[i].exchange, batch[i].to_currency, ">",
                           initial_currency_balance(pre_condition_responses, batch[i].to_currency),
                           None, <<i, "post_to">>)}
    ELSE {}

---------------------------------------------------------------------------
(* functions.py: aggregation and evaluation engine *)

\* mutant: the objects are told apart by identity
SetUpdate_identity(S, T) == S \cup T

\* set.update(T) on S under the conditions' __eq__: an element equal to one
\* already present is not added (the object already in the set stays)
SetUpdate(S, T) == S \cup {t \in T : \A s \in S : ~CondEq(s, t)}

\* _get_conditions_map: venue -> set of condition objects; conds[i] is the
\* set command i returns
RECURSIVE _get_conditions_map(_, _, _)
_get_conditions_map(batch, conds, n) ==
    IF n = 0 THEN EmptyMap
    ELSE LET m == _get_conditions_map(batch, conds, n - 1)
             e == batch[n].exchange
             old == IF e \in DOMAIN m THEN m[e] ELSE {}
         IN  [v \in DOMAIN m \cup {e} |-> IF v = e THEN SetUpdate(old, conds[n]) ELSE m[v]]

\* mutant: Strategy.REPLACE, the parameters of src replace those of dst
MergeAdditive_replace(dst, src) ==
    [m \in DOMAIN dst \cup DOMAIN src |-> IF m \in DOMAIN src THEN src[m] ELSE dst[m]]

\* mergedeep.merge(dst, src, strategy=ADDITIVE) on method -> set of symbols
MergeAdditive(dst, src) ==
    [m \in DOMAIN dst \cup DOMAIN src |->
        IF m \in DOMAIN dst /\ m \in DOMAIN src THEN dst[m] \cup src[m]
        ELSE IF m \in DOMAIN dst THEN dst[m] ELSE src[m]]

RECURSIVE MergeAll(_)
MergeAll(conditions) ==
    IF conditions = {} THEN EmptyMap
    ELSE LET c == CHOOSE x \in conditions : TRUE
         IN  MergeAdditive(MergeAll(conditions \ {c}), ccxt_methods(c))

\* mutant: the conditions of all venues are merged into every venue
_get_aggregated_all_venues(conditions_map) ==
    [e \in DOMAIN conditions_map |-> MergeAll(UNION {conditions_map[v] : v \in DOMAIN conditions_map})]

\* _get_aggregated_ccxt_method_calls: venue -> (method -> params)
_get_aggregated_ccxt_method_calls(conditions_map) ==
    [e \in DOMAIN conditions_map |-> MergeAll(conditions_map[e])]

\* _exchange_method_iterator: the (venue, method) pairs one task is created for
_exchange_method_iterator(method_calls_map) ==
    {em \in Venues \X Methods :
        em[1] \in DOMAIN method_calls_map /\ em[2] \in DOMAIN method_calls_map[em[1]]}

\* _get_parallel_pre_condition_responses: one task per (venue, method)
NewTasks(method_calls_map) ==
    [em \in _exchange_method_iterator(method_calls_map) |->
        [st |-> "pending", params |-> method_calls_map[em[1]][em[2]], response |-> EmptyMap]]

\* condition_responses_map[exchange] of a defaultdict(dict)
ResponsesOf(condition_responses_map, e) ==
    IF e \in DOMAIN condition_responses_map THEN condition_responses_map[e] ELSE EmptyMap

\* mutant: every result that is not True counts as a failure
IsFalse_not_true(r) == r # "True"

\* functions.py:71 and :73: "result is True", "result is False"
IsTrue(r) == r = "True"
IsFalse(r) == r = "False"

\* _evaluate_conditions_from_responses
_evaluate_conditions_from_responses(condition_responses_map, conditions_map) ==
    LET all == UNION {{<<e, c>> : c \in conditions_map[e]} : e \in DOMAIN conditions_map}
        val(ec) == evaluate(ec[2], ResponsesOf(condition_responses_map, ec[1]))
    IN  [successful |-> {ec[2] : ec \in {x \in all : IsTrue(val(x))}},
         failed |-> {ec[2] : ec \in {x \in all : IsFalse(val(x))}}]

\* the conditions of the pass whose evaluate() raises
Raising(condition_responses_map, conditions_map) ==
    LET all == UNION {{<<e, c>> : c \in conditions_map[e]} : e \in DOMAIN conditions_map}
    IN  {ec \in all : evaluate(ec[2], ResponsesOf(condition_responses_map, ec[1]))
                          = "InvalidConditionComparatorError"}

\* the attributes evaluate() leaves on the objects it is called on
EvaluatedAttrs(condition_responses_map, conditions_map, old) ==
    LET all == UNION {{<<e, c>> : c \in conditions_map[e]} : e \in DOMAIN conditions_map}
        ids == {ec[2].oid : ec \in all}
        of(id) == CHOOSE ec \in all : ec[2].oid = id
    IN  [id \in DOMAIN old \cup ids |->
            IF id \in ids
            THEN LET c == of(id)[2]
                     responses == ResponsesOf(condition_responses_map, of(id)[1])
                 IN  [responses |-> responses,
                      balance_amount_in_currency |->
                          IF c.cls = "BalanceCondition"
                          THEN balance_amount_in_currency(c, responses) ELSE None,
                      position_amount_in_currency |->
                          IF c.cls \in {"PositionFetch", "PositionCondition"}
                          THEN position_amount_in_currency(c, responses) ELSE None]
            ELSE old[id]]

---------------------------------------------------------------------------
(* commands.py: ExecuteOrderTillCommand.create_limit_order_with_timeout and
   utils.py: wait_till_order_closed, one coroutine per command *)

\* one Gateway call of an execute() coroutine, with the answer it got
Ev(op, type, side, symbol, amount, price) ==
    [op |-> op, type |-> type, side |-> side, symbol |-> symbol, amount |-> amount,
     price |-> price, result |-> "pending", filled |-> Zero]

Answered(trace, answer, filled) ==
    [trace EXCEPT ![Len(trace)] = [@ EXCEPT !.result = answer, !.filled = filled]]

InitCst == [pc |-> "init", trace |-> <<>>, side |-> None, symbol |-> NoSymbol,
            amount |-> Zero, elapsed |-> 0, error |-> None]

Terminal(c) == c.pc \in {"returned", "raised"}

Raised(c, error) == [c EXCEPT !.pc = "raised", !.error = error]
Returned(c) == [c EXCEPT !.pc = "returned"]

\* mutant: the passive phase is never skipped
SkipsPassivePhase_never(timeout) == FALSE

\* commands.py:48: a deadline of 0 skips the passive phase
SkipsPassivePhase(timeout) == timeout = 0

\* mutant: a missing deadline is waited for like a deadline
ReturnsAfterPlacement_never(timeout) == FALSE

\* commands.py:60: no deadline: return right after the placement
ReturnsAfterPlacement(timeout) == timeout = NoTimeout

\* mutant: only the status "filled" ends the polling loop
OrderClosed_filled_only(status) == status = "filled"

\* utils.py:37: the polling loop ends at the first status that is not 'open'
OrderClosed(status) == status # "open"

\* mutant: no polling error is recovered
PollingRecovered_none == {}

\* utils.py:39: polling errors taken as "order is closed"
PollingRecovered == {"OrderNotFound"}

\* mutant: every cancellation error is taken as "order was already executed"
CancelRecovered_every_error == {"OrderNotFound", "InvalidOrder", "ExchangeError"}

\* mutant: InvalidOrder is not recovered
CancelRecovered_not_found_only == {"OrderNotFound"}

\* commands.py:67: cancellation errors taken as "order was already executed"
CancelRecovered == {"OrderNotFound", "InvalidOrder"}

\* mutant: the filled quantity is not subtracted
RemainingAmount_full(amount, filled) == amount

\* commands.py:71-72: the amount left for the market order
RemainingAmount(amount, filled) ==
    IF RLt(Zero, filled) THEN RSub(amount, filled) ELSE amount

\* mutant: the passive order is priced at the far side of the spread
LimitPrice_far_side(ticker, trading_side) ==
    IF trading_side = "buy" THEN ticker.ask ELSE ticker.bid

\* commands.py:51-56: the price of the passive order
LimitPrice(ticker, trading_side) ==
    LET spread == RSub(ticker.ask, ticker.bid)
        portion_above_last_price == RDiv(spread, Num(LIMIT_ORDER_PORTION_FROM_SPREAD))
    IN  IF trading_side = "buy" THEN RAdd(ticker.bid, portion_above_last_price)
        ELSE RSub(ticker.ask, portion_above_last_price)

\* the answers of the Gateway to the calls of the order state machine
StatusErrors == {"OrderNotFound", "ExchangeError"}
StatusAnswers == {"open", "closed"} \cup StatusErrors
CancelAnswers == {"ok", "OrderNotFound", "InvalidOrder", "ExchangeError"}
OrderAnswers == {"ok", "ExchangeError"}
FilledAnswers(amount) == {Zero, RDiv(amount, Num(2)), amount}

\* commands.py:74: the market order is issued
IssueMarket(c) ==
    [c EXCEPT !.pc = "market_call",
              !.trace = Append(@, Ev("create_order", "market", c.side, c.symbol, c.amount, Zero))]

\* create_limit_order_with_timeout up to its first Gateway call
create_limit_order_with_timeout(c, timeout, pre_condition_responses) ==
    IF SkipsPassivePhase(timeout) THEN IssueMarket(c)
    ELSE IF \/ "fetch_tickers" \notin DOMAIN pre_condition_responses
            \/ c.symbol \notin DOMAIN pre_condition_responses["fetch_tickers"]
         THEN Raised(c, "KeyError")
    ELSE LET ticker == pre_condition_responses["fetch_tickers"][c.symbol]
         IN  [c EXCEPT !.pc = "limit_call",
                       !.trace = Append(@, Ev("create_order", "limit", c.side, c.symbol, c.amount,
                                              LimitPrice(ticker, c.side)))]

\* ExchangeAllCurrency.execute up to its first Gateway call
ExchangeAllCurrency_execute(batch, i, c, pre_condition_responses, attrs) ==
    LET cond == selling_currency_balance_condition(batch, i)
    IN  IF cond.is_symbol_reversed
        THEN create_limit_order_with_timeout(
                 [c EXCEPT !.side = "sell", !.symbol = cond.converting_symbol,
                           !.amount = initial_currency_balance(pre_condition_responses,
                                                               batch[i].from_currency)],
                 batch[i].execute_till, pre_condition_responses)
        ELSE IF cond.oid \notin DOMAIN attrs THEN Raised(c, "AttributeError")
        ELSE create_limit_order_with_timeout(
                 [c EXCEPT !.side = "buy", !.symbol = cond.converting_symbol,
                           !.amount = attrs[cond.oid].balance_amount_in_currency],
                 batch[i].execute_till, pre_condition_responses)

\* ExchangeCurrency.execute up to its first Gateway call
ExchangeCurrency_execute(batch, i, c, pre_condition_responses, attrs) ==
    LET buying == buying_currency_conversion(batch[i], i)
        trading == trading_symbol_conversion(batch[i], i)
        trading_side == IF trading.is_symbol_reversed THEN "sell" ELSE "buy"
    IN  IF buying.from_currency = buying.to_currency
        THEN create_limit_order_with_timeout(
                 [c EXCEPT !.side = trading_side, !.symbol = trading.converting_symbol,
                           !.amount = batch[i].amount],
                 batch[i].execute_till, pre_condition_responses)
        ELSE IF buying.oid \notin DOMAIN attrs THEN Raised(c, "AttributeError")
        ELSE create_limit_order_with_timeout(
                 [c EXCEPT !.side = trading_side, !.symbol = trading.converting_symbol,
                           !.amount = convert_amount(buying, batch[i].amount,
                                                     attrs[buying.oid].responses)],
                 batch[i].execute_till, pre_condition_responses)

\* command.execute() up to its first Gateway call
execute(batch, i, c, pre_condition_responses, attrs) ==
    IF batch[i].cls = "ExchangeAllCurrency"
    THEN ExchangeAllCurrency_execute(batch, i, c, pre_condition_responses, attrs)
    ELSE IF batch[i].cls = "ExchangeCurrency"
    THEN ExchangeCurrency_execute(batch, i, c, pre_condition_responses, attrs)
    ELSE Raised(c, "NotImplementedError")

---------------------------------------------------------------------------
(* functions.py: execute_commands *)

N == Len(cmds)
Cmds == 1..N

NoOutcome == [kind |-> "none", failed_conditions |-> {}, failed_commands_dict |-> EmptyMap]

\* mutant: the failed set is ignored
ConditionsFailed_ignored(failures) == FALSE

\* functions.py:121 and :130: a non-empty failed set raises
ConditionsFailed(failures) == failures # {}

\* mutant: the first element of the returned pair is taken
Failures_successful(res) == res.successful

\* functions.py:120 and :129: "_, failures = ..."
Failures(res) == res.failed

\* mutant: return_exceptions=False, the first exception ends the gather
GatherDone_fail_fast(states) ==
    \/ \E i \in DOMAIN states : states[i].pc = "raised"
    \/ \A i \in DOMAIN states : Terminal(states[i])

\* mutant: the gathered executions are not awaited
GatherDone_not_awaited(states) == TRUE

\* functions.py:100-102: gather(..., return_exceptions=True) is done when
\* every execute() coroutine has returned or raised
GatherDone(states) == \A i \in DOMAIN states : Terminal(states[i])

\* mutant: the results of the gathered executions are not inspected
FailedCommandsDict_unchecked(states) == EmptyMap

\* mutant: every command is reported, not only those that raised
FailedCommandsDict_all(states) == [i \in DOMAIN states |-> states[i].error]

\* functions.py:107-110: command -> error, for the commands whose result is an Exception
FailedCommandsDict(states) ==
    [i \in {j \in DOMAIN states : states[j].pc = "raised"} |-> states[i].error]

\* _evaluate_conditions up to the await of the gathered reads
StartPass(phase, conds) ==
    LET conditions_map == _get_conditions_map(cmds, conds, N)
        method_calls_map == _get_aggregated_ccxt_method_calls(conditions_map)
    IN  /\ condmap' = conditions_map
        /\ tasks' = NewTasks(method_calls_map)

\* functions.py:119-120: execute_commands is called
StartPre ==
    /\ pc = "start"
    /\ StartPass("pre", [i \in Cmds |-> pre_conditions(cmds, i)])
    /\ pc' = "pre_pass"
    /\ UNCHANGED <<call, run, cmds, markets, reads, resp, result, cmd_resp, attr, cst, outcome>>

Phase == IF pc = "pre_pass" THEN "pre" ELSE "post"

\* functions.py:50: "if not exchange.markets"
RegistryMissing(registry) == ~registry.loaded

\* _get_ccxt_response starts: with the registry missing load_markets() is
\* called, else the read of the task is issued
IssueRead(e, m) ==
    /\ pc \in {"pre_pass", "post_pass"}
    /\ <<e, m>> \in DOMAIN tasks
    /\ tasks[<<e, m>>].st = "pending"
    /\ IF RegistryMissing(markets[e])
       THEN /\ tasks' = [tasks EXCEPT ![<<e, m>>].st = "loading"]
            /\ markets' = [markets EXCEPT ![e].load_markets = Append(@, markets[e].loaded)]
            /\ reads' = reads
       ELSE /\ tasks' = [tasks EXCEPT ![<<e, m>>].st = "called"]
            /\ reads' = [reads EXCEPT ![<<Phase, e, m>>] = Append(@, tasks[<<e, m>>].params)]
            /\ markets' = markets
    /\ UNCHANGED <<call, run, cmds, pc, condmap, resp, result, cmd_resp, attr, cst, outcome>>

\* functions.py:51-52: load_markets() answers, the registry is loaded and the
\* read of the task is issued
LoadMarketsReturn(e, m) ==
    /\ pc \in {"pre_pass", "post_pass"}
    /\ <<e, m>> \in DOMAIN tasks
    /\ tasks[<<e, m>>].st = "loading"
    /\ markets' = [markets EXCEPT ![e].loaded = TRUE]
    /\ tasks' = [tasks EXCEPT ![<<e, m>>].st = "called"]
    /\ reads' = [reads EXCEPT ![<<Phase, e, m>>] = Append(@, tasks[<<e, m>>].params)]
    /\ UNCHANGED <<call, run, cmds, pc, condmap, resp, result, cmd_resp, attr, cst, outcome>>

\* _get_ccxt_response: the Gateway answers the read of one task
ReturnRead(e, m) ==
    /\ pc \in {"pre_pass", "post_pass"}
    /\ <<e, m>> \in DOMAIN tasks
    /\ tasks[<<e, m>>].st = "called"
    /\ \E r \in GatewayResponses(m, tasks[<<e, m>>].params) :
          tasks' = [tasks EXCEPT ![<<e, m>>] = [@ EXCEPT !.st = "done", !.response = r]]
    /\ UNCHANGED <<call, run, cmds, markets, pc, condmap, reads, resp, result, cmd_resp, attr, cst, outcome>>

\* functions.py:86-88: condition_responses_map built from the gathered responses
ResponseMap ==
    [e \in {em[1] : em \in DOMAIN tasks} |->
        [m \in {em[2] : em \in {x \in DOMAIN tasks : x[1] = e}} |-> tasks[<<e, m>>].response]]

\* mutant: the response map is stored under both phases
AttachResponses_both_phases(old, phase, condition_responses_map) ==
    [i \in Cmds |-> [p \in {"pre", "post"} |-> ResponsesOf(condition_responses_map, cmds[i].exchange)]]

\* functions.py:93-94: setattr(command, '<phase>_condition_responses', ...)
AttachResponses(old, phase, condition_responses_map) ==
    [i \in Cmds |-> [old[i] EXCEPT ![phase] = ResponsesOf(condition_responses_map, cmds[i].exchange)]]

\* functions.py:90-96: the pass evaluates and stores the response maps on the commands
FinishPass(phase) ==
    /\ \A em \in DOMAIN tasks : tasks[em].st = "done"
    /\ resp' = ResponseMap
    /\ result' = [p \in DOMAIN result \cup {phase} |->
                     IF p = phase THEN _evaluate_conditions_from_responses(ResponseMap, condmap)
                     ELSE result[p]]
    /\ attr' = EvaluatedAttrs(ResponseMap, condmap, attr)
    /\ cmd_resp' = AttachResponses(cmd_resp, phase, ResponseMap)

\* the conditions_map restricted to the objects of a set of <<venue, condition>>
RestrictedTo(conditions_map, ecs) ==
    [e \in DOMAIN conditions_map |-> {c \in conditions_map[e] : <<e, c>> \in ecs}]

\* functions.py:90 with conditions.py:65: an evaluate() of the pass raises and
\* the error leaves _evaluate_conditions before anything is returned or stored
\* on the commands; the raising object and the objects the loop came to
\* before it (any of the others) keep what evaluate() set on them
AbortPass ==
    /\ \A em \in DOMAIN tasks : tasks[em].st = "done"
    /\ resp' = ResponseMap
    /\ LET all == UNION {{<<e, c>> : c \in condmap[e]} : e \in DOMAIN condmap}
           raising == Raising(ResponseMap, condmap)
       IN  \E r \in raising, before \in SUBSET (all \ raising) :
              attr' = EvaluatedAttrs(ResponseMap, RestrictedTo(condmap, before \cup {r}), attr)
    /\ outcome' = [NoOutcome EXCEPT !.kind = "InvalidConditionComparatorError"]
    /\ pc' = "done"
    /\ UNCHANGED <<result, cmd_resp>>

\* functions.py:120-124: the precondition gate
EvaluatePre ==
    /\ pc = "pre_pass"
    /\ IF /\ \A em \in DOMAIN tasks : tasks[em].st = "done"
          /\ Raising(ResponseMap, condmap) # {}
       THEN AbortPass
       ELSE /\ FinishPass("pre")
            /\ IF ConditionsFailed(Failures(result'["pre"]))
               THEN /\ outcome' = [NoOutcome EXCEPT !.kind = "PreConditionError",
                                                    !.failed_conditions = Failures(result'["pre"])]
                    /\ pc' = "done"
               ELSE /\ outcome' = outcome
                    /\ pc' = "exec"
    /\ UNCHANGED <<call, run, cmds, markets, condmap, tasks, reads, cst>>

\* command.execute() starts and runs to its first Gateway call
StartExecute(i) ==
    /\ pc = "exec"
    /\ cst[i].pc = "init"
    /\ cst' = [cst EXCEPT ![i] = execute(cmds, i, @, cmd_resp[i].pre, attr)]
    /\ UNCHANGED <<call, run, cmds, markets, pc, condmap, tasks, reads, resp, result, cmd_resp, attr, outcome>>

\* commands.py:57-62: create_order(type='limit') answers
LimitReturn(i) ==
    /\ cst[i].pc = "limit_call"
    /\ \E a \in OrderAnswers :
          LET c == [cst[i] EXCEPT !.trace = Answered(@, a, Zero)]
          IN  cst' = [cst EXCEPT ![i] =
                         IF a # "ok" THEN Raised(c, a)
                         ELSE IF ReturnsAfterPlacement(cmds[i].execute_till) THEN Returned(c)
                         ELSE [c EXCEPT !.pc = "sleeping", !.elapsed = 0]]
    /\ UNCHANGED <<call, run, cmds, markets, pc, condmap, tasks, reads, resp, result, cmd_resp, attr, outcome>>

\* mutant: the polling loop is left running after the deadline
SleepEndsBeforeDeadline_always(elapsed, timeout) == TRUE

\* utils.py:35 and :42: the sleep of the polling loop ends before wait_for
\* times out
SleepEndsBeforeDeadline(elapsed, timeout) == elapsed + PollingInterval <= timeout

\* utils.py:35-37: the polling interval has passed before the deadline,
\* fetch_order_status is issued
PollIssue(i) ==
    /\ cst[i].pc = "sleeping"
    /\ SleepEndsBeforeDeadline(cst[i].elapsed, cmds[i].execute_till)
    /\ cst' = [cst EXCEPT ![i] =
                  [@ EXCEPT !.pc = "polling", !.elapsed = @ + PollingInterval,
                            !.trace = Append(@, Ev("fetch_order_status", None, None,
                                                   cst[i].symbol, Zero, Zero))]]
    /\ UNCHANGED <<call, run, cmds, markets, pc, condmap, tasks, reads, resp, result, cmd_resp, attr, outcome>>

\* utils.py:37-43: fetch_order_status answers before the deadline
PollReturn(i) ==
    /\ cst[i].pc = "polling"
    /\ \E l \in 0..MaxLatency, a \in StatusAnswers :
          /\ cst[i].elapsed + l <= cmds[i].execute_till
          /\ LET c == [cst[i] EXCEPT !.trace = Answered(@, a, Zero), !.elapsed = @ + l]
             IN  cst' = [cst EXCEPT ![i] =
                            IF a \in StatusErrors
                            THEN IF a \in PollingRecovered THEN Returned(c) ELSE Raised(c, a)
                            ELSE IF OrderClosed(a) THEN Returned(c)
                            ELSE [c EXCEPT !.pc = "sleeping"]]
    /\ UNCHANGED <<call, run, cmds, markets, pc, condmap, tasks, reads, resp, result, cmd_resp, attr, outcome>>

\* mutant: wait_for has no timeout
DeadlineElapsed_never(elapsed, wait, timeout) == FALSE

\* mutant: the wait is given up before the deadline
DeadlineElapsed_early(elapsed, wait, timeout) == TRUE

\* utils.py:42-44: wait_for(order_state_polling(), timeout) times out when the
\* loop, waiting since elapsed for at most wait more, has not ended by timeout
DeadlineElapsed(elapsed, wait, timeout) == elapsed + wait >= timeout

\* utils.py:42-45 and commands.py:62-66: the deadline elapses while the
\* polling loop sleeps or waits for an answer; the loop is cancelled and
\* cancel_order is issued
Deadline(i) ==
    /\ \/ /\ cst[i].pc = "sleeping"
          /\ DeadlineElapsed(cst[i].elapsed, PollingInterval, cmds[i].execute_till)
       \/ /\ cst[i].pc = "polling"
          /\ DeadlineElapsed(cst[i].elapsed, MaxLatency, cmds[i].execute_till)
    /\ LET t == IF cst[i].pc = "polling" THEN Answered(cst[i].trace, "cancelled", Zero)
                ELSE cst[i].trace
       IN  cst' = [cst EXCEPT ![i] =
                      [@ EXCEPT !.pc = "cancel_call", !.elapsed = cmds[i].execute_till,
                                !.trace = Append(t, Ev("cancel_order", None, None,
                                                       cst[i].symbol, Zero, Zero))]]
    /\ UNCHANGED <<call, run, cmds, markets, pc, condmap, tasks, reads, resp, result, cmd_resp, attr, outcome>>

\* commands.py:65-70: cancel_order answers
CancelReturn(i) ==
    /\ cst[i].pc = "cancel_call"
    /\ \E a \in CancelAnswers :
          LET c == [cst[i] EXCEPT !.trace = Answered(@, a, Zero)]
          IN  cst' = [cst EXCEPT ![i] =
                         IF a \in CancelRecovered THEN Returned(c)
                         ELSE IF a # "ok" THEN Raised(c, a)
                         ELSE [c EXCEPT !.pc = "fetch_call",
                                        !.trace = Append(@, Ev("fetch_order", None, None,
                                                               NoSymbol, Zero, Zero))]]
    /\ UNCHANGED <<call, run, cmds, markets, pc, condmap, tasks, reads, resp, result, cmd_resp, attr, outcome>>

\* commands.py:70-75: fetch_order answers
FetchReturn(i) ==
    /\ cst[i].pc = "fetch_call"
    /\ \/ \E f \in FilledAnswers(cst[i].amount) :
             cst' = [cst EXCEPT ![i] =
                        IssueMarket([@ EXCEPT !.trace = Answered(@, "ok", f),
                                              !.amount = RemainingAmount(@, f)])]
       \/ cst' = [cst EXCEPT ![i] =
                     Raised([@ EXCEPT !.trace = Answered(@, "ExchangeError", Zero)], "ExchangeError")]
    /\ UNCHANGED <<call, run, cmds, markets, pc, condmap, tasks, reads, resp, result, cmd_resp, attr, outcome>>

\* commands.py:74-75: create_order(type='market') answers
MarketReturn(i) ==
    /\ cst[i].pc = "market_call"
    /\ \E a \in OrderAnswers :
          LET c == [cst[i] EXCEPT !.trace = Answered(@, a, Zero)]
          IN  cst' = [cst EXCEPT ![i] = IF a = "ok" THEN Returned(c) ELSE Raised(c, a)]
    /\ UNCHANGED <<call, run, cmds, markets, pc, condmap, tasks, reads, resp, result, cmd_resp, attr, outcome>>

\* functions.py:105-112 and :124-127: the gathered executions are done
FinishExecute ==
    /\ pc = "exec"
    /\ GatherDone(cst)
    /\ IF DOMAIN FailedCommandsDict(cst) # {}
       THEN /\ outcome' = [NoOutcome EXCEPT !.kind = "CommandExecutionError",
                                            !.failed_commands_dict = FailedCommandsDict(cst)]
            /\ pc' = "done"
       ELSE /\ outcome' = outcome
            /\ pc' = "sleep"
    /\ UNCHANGED <<call, run, cmds, markets, condmap, tasks, reads, resp, result, cmd_resp, attr, cst>>

\* functions.py:127-129: the settle delay has passed, the postcondition pass starts
Settle ==
    /\ pc = "sleep"
    /\ IF \E i \in Cmds : post_conditions_raises(cmds[i], cmd_resp[i].pre) # None
       THEN /\ outcome' = [NoOutcome EXCEPT !.kind = "KeyError"]
            /\ pc' = "done"
            /\ UNCHANGED <<condmap, tasks>>
       ELSE /\ StartPass("post", [i \in Cmds |-> post_conditions(cmds, i, cmd_resp[i].pre)])
            /\ pc' = "post_pass"
            /\ outcome' = outcome
    /\ UNCHANGED <<call, run, cmds, markets, reads, resp, result, cmd_resp, attr, cst>>

\* functions.py:129-131: the postcondition gate
EvaluatePost ==
    /\ pc = "post_pass"
    /\ FinishPass("post")
    /\ outcome' = IF ConditionsFailed(Failures(result'["post"]))
                  THEN [NoOutcome EXCEPT !.kind = "PostConditionError",
                                         !.failed_conditions = Failures(result'["post"])]
                  ELSE [NoOutcome EXCEPT !.kind = "returned"]
    /\ pc' = "done"
    /\ UNCHANGED <<call, run, cmds, markets, condmap, tasks, reads, cst>>

---------------------------------------------------------------------------
(* The batches of the model *)

ConditionSpec(slot, cls, currency, symbol, comparator, value, in_currency) ==
    [slot |-> slot, cls |-> cls, currency |-> currency, symbol |-> symbol,
     comparator |-> comparator, value |-> value, in_currency |-> in_currency]

usd_gte_68 == ConditionSpec("usd_gte_68", "BalanceCondition", "USD", NoSymbol, "gte", Num(68), None)
eth_gte_1 == ConditionSpec("eth_gte_1", "BalanceCondition", "ETH", NoSymbol, "gte", Num(1), None)
btc_gte_2 == ConditionSpec("btc_gte_2", "BalanceCondition", "BTC", NoSymbol, "gte", Num(2), None)
btc_gte_5_usd == ConditionSpec("btc_gte_5_usd", "BalanceCondition", "BTC", NoSymbol, ">=", Num(5), "USD")
usd_ge_68_usd == ConditionSpec("usd_ge_68_usd", "BalanceCondition", "USD", NoSymbol, ">=", Num(68), "USD")
usd_to_eth == ConditionSpec("usd_to_eth", "CurrencyConversion", "USD", NoSymbol, None, Zero, "ETH")
eth_future == ConditionSpec("eth_future", "PositionFetch", None, <<"ETH", "-0625">>, None, Zero, None)
btc_future_neq_0 == ConditionSpec("btc_future_neq_0", "PositionCondition", None, <<"BTC", "-1231">>,
                                  "neq", Zero, None)
eth_future_lt_0 == ConditionSpec("eth_future_lt_0", "PositionCondition", None, <<"ETH", "-0625">>,
                                 "<", Zero, None)

\* tests/test_conditions.py: MockTrueConditionsCommand, MockFalseConditionsCommand
MockTrueConditionsCommand(e) == TestCommand(e, {usd_gte_68, eth_gte_1})
MockFalseConditionsCommand(e) == TestCommand(e, {usd_gte_68, btc_gte_2})
ConversionConditionCommand(e) == TestCommand(e, {btc_gte_5_usd, usd_to_eth})
\* tests/test_conditions.py:50: the same condition spelled with '>=' (and with
\* in_currency equal to the currency)
AliasConditionCommand(e) == TestCommand(e, {usd_ge_68_usd})
\* tests/test_conversions.py and tests/test_commands.py: conditions that fetch
\* without asserting, next to position conditions
PositionConditionsCommand(e) ==
    TestCommand(e, {eth_future, btc_future_neq_0, eth_future_lt_0})

Deadlines == {0, NoTimeout, ShortDeadline, LongDeadline}

ExchangeAllCommands(venues, deadlines) ==
    {ExchangeAllCurrency(e, ft[1], ft[2], d) :
        e \in venues, ft \in {<<"ETH", "BTC">>, <<"BTC", "ETH">>}, d \in deadlines}

TestCommands(venues) ==
    UNION {{BaseCommand(e), MockTrueConditionsCommand(e), MockFalseConditionsCommand(e),
            ConversionConditionCommand(e), PositionConditionsCommand(e),
            AliasConditionCommand(e)} : e \in venues}

Batches ==
    {<<c>> : c \in ExchangeAllCommands({"FTX"}, Deadlines) \cup TestCommands({"FTX"})}
    \cup {<<a, b>> : a \in ExchangeAllCommands({"FTX"}, {0, LongDeadline}),
                     b \in TestCommands(Venues) \cup ExchangeAllCommands(Venues, {0, NoTimeout})
                                \cup ExchangeAllCommands({"Binance"}, {ShortDeadline})}
    \cup {<<a, b>> : a \in TestCommands({"FTX"}),
                     b \in TestCommands(Venues) \cup ExchangeAllCommands(Venues, {0, ShortDeadline})}

\* constructing the command reads exchange.markets (a currency pair is resolved)
NeedsRegistry(command) ==
    \/ command.cls \in {"ExchangeAllCurrency", "ExchangeCurrency"}
    \/ \E p \in command.test_conditions :
          LET currency == IF p.cls \in {"PositionFetch", "PositionCondition"}
                          THEN get_currency_from_symbol(p.symbol) ELSE p.currency
          IN  p.in_currency \notin {None, currency}

\* the registries the venues may hold when execute_commands is called: a
\* venue one of whose commands resolved a pair has it loaded, a venue without
\* command is taken as loaded
RegistryStates(batch) ==
    {f \in [Venues -> BOOLEAN] :
        \A e \in Venues :
            (\/ \A i \in DOMAIN batch : batch[i].exchange # e
             \/ \E i \in DOMAIN batch : batch[i].exchange = e /\ NeedsRegistry(batch[i])) => f[e]}

\* no function is applied on its own, the sequential runner is not used
NoCall == [fn |-> None]
NoRun == [pc |-> None]

\* tests/test_conditions.py:79-83: a condition with a comparator _compare does
\* not know, alone and next to a condition with a known one
btc_invalid_operator ==
    ConditionSpec("btc_invalid_operator", "BalanceCondition", "BTC", NoSymbol, "invalid_operator",
                  Num(13125), None)
InvalidComparatorCommands(e) ==
    {TestCommand(e, {btc_invalid_operator}), TestCommand(e, {btc_invalid_operator, usd_gte_68})}

\* tests/test_commands.py:32-50: ExchangeCurrency of half a unit of the bought
\* currency, with and without margin
ExchangeCurrencyCommands(venues, deadlines) ==
    {ExchangeCurrency(e, ft[1], ft[2], Rat(1, 2), None, d, m) :
        e \in venues, ft \in {<<"ETH", "BTC">>, <<"BTC", "ETH">>}, d \in deadlines, m \in BOOLEAN}

\* ExchangeCurrency of ETH to BTC with the amount given in a third currency
InCurrencyCommands(venues, deadlines) ==
    {ExchangeCurrency(e, "ETH", "BTC", Rat(1, 2), "USD", d, FALSE) : e \in venues, d \in deadlines}

\* two ExchangeCurrency that spend the same currency of one venue, asking for
\* the same amount or for different amounts
SameFundsBatches ==
    {<<ExchangeCurrency("FTX", "BTC", "ETH", Rat(1, 2), None, 0, FALSE),
       ExchangeCurrency("FTX", "BTC", "ETH", a, None, 0, FALSE)>> : a \in {Rat(1, 2), Rat(3, 4)}}

\* batches with the commands and conditions Batches leaves out
WiderBatches ==
    {<<c>> : c \in ExchangeCurrencyCommands({"FTX"}, {0, LongDeadline})
                   \cup InCurrencyCommands({"FTX"}, {0, NoTimeout})
                   \cup InvalidComparatorCommands("FTX")}
    \cup {<<a, b>> : a \in InvalidComparatorCommands("FTX"),
                     b \in ExchangeAllCommands(Venues, {0})
                           \cup ExchangeCurrencyCommands({"FTX"}, {0})}
    \cup {<<a, b>> : a \in ExchangeCurrencyCommands({"FTX"}, {0}),
                     b \in ExchangeCurrencyCommands(Venues, {0})}
    \cup SameFundsBatches

Init ==
    /\ cmds \in Batches
    /\ \E f \in RegistryStates(cmds) :
          markets = [e \in Venues |-> [loaded |-> f[e], load_markets |-> <<>>]]
    /\ pc = "start"
    /\ condmap = EmptyMap
    /\ tasks = EmptyMap
    /\ reads = [k \in {"pre", "post"} \X Venues \X Methods |-> <<>>]
    /\ resp = EmptyMap
    /\ result = EmptyMap
    /\ cmd_resp = [i \in 1..Len(cmds) |-> [pre |-> EmptyMap, post |-> EmptyMap]]
    /\ attr = EmptyMap
    /\ cst = [i \in 1..Len(cmds) |-> InitCst]
    /\ outcome = NoOutcome
    /\ call = NoCall
    /\ run = NoRun

Next ==
    \/ StartPre
    \/ \E e \in Venues, m \in Methods : IssueRead(e, m)
    \/ \E e \in Venues, m \in Methods : LoadMarketsReturn(e, m)
    \/ \E e \in Venues, m \in Methods : ReturnRead(e, m)
    \/ EvaluatePre
    \/ \E i \in Cmds : StartExecute(i)
    \/ \E i \in Cmds : LimitReturn(i)
    \/ \E i \in Cmds : PollIssue(i)
    \/ \E i \in Cmds : PollReturn(i)
    \/ \E i \in Cmds : Deadline(i)
    \/ \E i \in Cmds : CancelReturn(i)
    \/ \E i \in Cmds : FetchReturn(i)
    \/ \E i \in Cmds : MarketReturn(i)
    \/ FinishExecute
    \/ Settle
    \/ EvaluatePost

Spec == Init /\ [][Next]_vars

\* the steps of execute() of command i after it started: a Gateway call of
\* the order machine answers, or a timer of wait_till_order_closed fires
ExecuteStep(i) ==
    \/ LimitReturn(i)
    \/ PollIssue(i)
    \/ PollReturn(i)
    \/ Deadline(i)
    \/ CancelReturn(i)
    \/ FetchReturn(i)
    \/ MarketReturn(i)

\* the positions a command has in a batch
Slots == 1..2

\* every Gateway call of an execute() returns and the event loop fires the
\* timers (asyncio.sleep, wait_for) that are due: an execute() that can take a
\* step is not left waiting for ever
ExecuteFairness == \A i \in Slots : WF_vars(i \in Cmds /\ ExecuteStep(i))

\* execute_commands with every Gateway call of the order machine answered
SpecFair == Init /\ [][Next]_vars /\ ExecuteFairness

\* the errors a Gateway read may raise (ccxt.NetworkError, ccxt.ExchangeError)
ReadErrors == {"NetworkError", "ExchangeError"}

\* mutant: a read error is reported as the failure of the pass's conditions
ReadErrorOutcome_wrapped(phase, error) ==
    IF phase = "pre" THEN "PreConditionError" ELSE "PostConditionError"

\* functions.py:60 with :84, :120 and :129: gather(*tasks,
\* return_exceptions=False) re-raises the error of a read, and neither
\* _evaluate_conditions nor execute_commands catches it
ReadErrorOutcome(phase, error) == error

\* functions.py:48-53 and :60: load_markets() or the read of a task raises;
\* the error leaves the gather, _evaluate_conditions and execute_commands at
\* once: nothing is evaluated and nothing is stored on the commands
ReadRaises(e, m) ==
    /\ pc \in {"pre_pass", "post_pass"}
    /\ <<e, m>> \in DOMAIN tasks
    /\ tasks[<<e, m>>].st \in {"loading", "called"}
    /\ \E error \in ReadErrors :
          /\ tasks' = [tasks EXCEPT ![<<e, m>>] = [@ EXCEPT !.st = "raised",
                                                            !.response = [error |-> error]]]
          /\ outcome' = [NoOutcome EXCEPT !.kind = ReadErrorOutcome(Phase, error)]
    /\ pc' = "done"
    /\ UNCHANGED <<call, run, cmds, markets, condmap, reads, resp, result, cmd_resp, attr, cst>>

\* the pass a read error ended: the postcondition pass if the precondition
\* pass had stored its result
FailedPhase == IF "pre" \in DOMAIN result THEN "post" ELSE "pre"

\* a read error ended execute_commands
ReadFailed == pc = "done" /\ \E em \in DOMAIN tasks : tasks[em].st = "raised"

\* functions.py:60: the gather does not cancel the other tasks when one
\* raises; a task the event loop still runs takes its next step
\* (_get_ccxt_response, functions.py:50-53), and its result is dropped.  A
\* caller that ends the event loop cancels the task instead, which is the
\* task taking no further step.
LeftoverRead(e, m) ==
    /\ ReadFailed
    /\ <<e, m>> \in DOMAIN tasks
    /\ LET task == tasks[<<e, m>>]
           issued == [reads EXCEPT ![<<FailedPhase, e, m>>] = Append(@, task.params)]
       IN  \/ /\ task.st = "pending" /\ RegistryMissing(markets[e])
              /\ tasks' = [tasks EXCEPT ![<<e, m>>].st = "loading"]
              /\ markets' = [markets EXCEPT ![e].load_markets = Append(@, markets[e].loaded)]
              /\ reads' = reads
           \/ /\ task.st = "pending" /\ ~RegistryMissing(markets[e])
              /\ tasks' = [tasks EXCEPT ![<<e, m>>].st = "called"]
              /\ reads' = issued
              /\ markets' = markets
           \/ /\ task.st = "loading"
              /\ tasks' = [tasks EXCEPT ![<<e, m>>].st = "called"]
              /\ markets' = [markets EXCEPT ![e].loaded = TRUE]
              /\ reads' = issued
           \/ /\ task.st = "called"
              /\ \E r \in GatewayResponses(m, task.params) :
                    tasks' = [tasks EXCEPT ![<<e, m>>] = [@ EXCEPT !.st = "done", !.response = r]]
              /\ UNCHANGED <<markets, reads>>
    /\ UNCHANGED <<call, run, cmds, pc, condmap, resp, result, cmd_resp, attr, cst, outcome>>

NextReads ==
    \/ Next
    \/ \E e \in Venues, m \in Methods : ReadRaises(e, m)
    \/ \E e \in Venues, m \in Methods : LeftoverRead(e, m)

\* execute_commands with Gateway reads that may raise
SpecReads == Init /\ [][NextReads]_vars

\* execute_commands on the batches of WiderBatches
InitWider ==
    /\ cmds \in WiderBatches
    /\ \E f \in RegistryStates(cmds) :
          markets = [e \in Venues |-> [loaded |-> f[e], load_markets |-> <<>>]]
    /\ pc = "start"
    /\ condmap = EmptyMap
    /\ tasks = EmptyMap
    /\ reads = [k \in {"pre", "post"} \X Venues \X Methods |-> <<>>]
    /\ resp = EmptyMap
    /\ result = EmptyMap
    /\ cmd_resp = [i \in 1..Len(cmds) |-> [pre |-> EmptyMap, post |-> EmptyMap]]
    /\ attr = EmptyMap
    /\ cst = [i \in 1..Len(cmds) |-> InitCst]
    /\ outcome = NoOutcome
    /\ call = NoCall
    /\ run = NoRun

SpecWider == InitWider /\ [][Next]_vars

---------------------------------------------------------------------------
(* functions.py: human_execute_commands_in_sequence.  A call of            *)
(* execute_commands is taken by the way it ends.                           *)

\* no batch is executed
NoBatch ==
    /\ cmds = <<>>
    /\ markets = [e \in Venues |-> [loaded |-> TRUE, load_markets |-> <<>>]]
    /\ pc = None
    /\ condmap = EmptyMap
    /\ tasks = EmptyMap
    /\ reads = [k \in {"pre", "post"} \X Venues \X Methods |-> <<>>]
    /\ resp = EmptyMap
    /\ result = EmptyMap
    /\ cmd_resp = <<>>
    /\ attr = EmptyMap
    /\ cst = <<>>
    /\ outcome = NoOutcome

\* the ways execute_commands ends: it returns, raises one of its three
\* errors, or an exception of another class leaves it
ExecuteCommandsOutcomes ==
    {"returned", "PreConditionError", "PostConditionError", "CommandExecutionError",
     "InvalidConditionComparatorError", "KeyError"}

InitRunner ==
    /\ NoBatch
    /\ call = NoCall
    /\ \E count \in 0..MaxCount, batches \in 0..MaxBatches, first \in BOOLEAN, post \in BOOLEAN :
          run = [pc |-> "start", count |-> count, command_batches |-> batches,
                 fail_on_first_batch_precondition |-> first, fail_on_postconditions |-> post,
                 execution_count |-> 0, batch_count |-> 0, calls |-> <<>>]

\* mutant: the round counter does not advance, the batches are run over and over
NextIteration_same_round(r, execution_count, batch_count) ==
    IF r.command_batches = 0 \/ execution_count > r.count THEN [r EXCEPT !.pc = "finished"]
    ELSE IF batch_count < r.command_batches
    THEN [r EXCEPT !.pc = "call", !.execution_count = execution_count, !.batch_count = batch_count + 1]
    ELSE [r EXCEPT !.pc = "call", !.execution_count = execution_count, !.batch_count = 1]

\* functions.py:137-139: the next iteration of the nested for loops after
\* batch batch_count of round execution_count, or "finished" after the last
NextIteration(r, execution_count, batch_count) ==
    IF r.command_batches = 0 \/ execution_count > r.count THEN [r EXCEPT !.pc = "finished"]
    ELSE IF batch_count < r.command_batches
    THEN [r EXCEPT !.pc = "call", !.execution_count = execution_count, !.batch_count = batch_count + 1]
    ELSE IF execution_count < r.count
    THEN [r EXCEPT !.pc = "call", !.execution_count = execution_count + 1, !.batch_count = 1]
    ELSE [r EXCEPT !.pc = "finished"]

\* the call of execute_commands in progress ends with the outcome
Ended(r, ending) ==
    [r EXCEPT !.calls = [@ EXCEPT ![Len(@)] = [@ EXCEPT !.outcome = ending]]]

\* functions.py:137: the runner is called
RunnerStart ==
    /\ run.pc = "start"
    /\ run' = NextIteration(run, 1, 0)
    /\ UNCHANGED <<engine, call>>

\* functions.py:140-142: execute_commands(*commands) is called
RunnerCall ==
    /\ run.pc = "call"
    /\ Len(run.calls) < MaxCalls
    /\ run' = [run EXCEPT !.pc = "awaiting",
                          !.calls = Append(@, [execution_count |-> run.execution_count,
                                               batch_count |-> run.batch_count,
                                               outcome |-> "pending"])]
    /\ UNCHANGED <<engine, call>>

\* functions.py:142-144: execute_commands returned; break
ExecutedSuccessfully ==
    /\ run.pc = "awaiting"
    /\ run' = [Ended(run, "returned") EXCEPT !.pc = "sleep"]
    /\ UNCHANGED <<engine, call>>

\* mutant: failed preconditions are retried on every batch, not only the first
RetriesPreCondition_any_batch(batch_count, fail_on_first_batch_precondition) ==
    ~fail_on_first_batch_precondition

\* functions.py:146
RetriesPreCondition(batch_count, fail_on_first_batch_precondition) ==
    batch_count = 1 /\ ~fail_on_first_batch_precondition

\* functions.py:145-151: except PreConditionError: continue or return
OnPreConditionError ==
    /\ run.pc = "awaiting"
    /\ run' = [Ended(run, "PreConditionError") EXCEPT
                  !.pc = IF RetriesPreCondition(run.batch_count, run.fail_on_first_batch_precondition)
                         THEN "call" ELSE "returned"]
    /\ UNCHANGED <<engine, call>>

\* mutant: the runner goes on after any failed postcondition
ReturnsOnPostConditions_never(fail_on_postconditions) == FALSE

\* functions.py:154-156: "if not fail_on_postconditions: break", else return
ReturnsOnPostConditions(fail_on_postconditions) == fail_on_postconditions

\* functions.py:152-156: except PostConditionError: break or return
OnPostConditionError ==
    /\ run.pc = "awaiting"
    /\ run' = [Ended(run, "PostConditionError") EXCEPT
                  !.pc = IF ReturnsOnPostConditions(run.fail_on_postconditions)
                         THEN "returned" ELSE "sleep"]
    /\ UNCHANGED <<engine, call>>

\* functions.py:157-159: except CommandExecutionError: return
OnCommandExecutionError ==
    /\ run.pc = "awaiting"
    /\ run' = [Ended(run, "CommandExecutionError") EXCEPT !.pc = "returned"]
    /\ UNCHANGED <<engine, call>>

\* an exception no except clause names leaves the runner
OnOtherError ==
    /\ run.pc = "awaiting"
    /\ \E error \in ExecuteCommandsOutcomes \ {"returned", "PreConditionError", "PostConditionError",
                                                  "CommandExecutionError"} :
          run' = [Ended(run, error) EXCEPT !.pc = "raised"]
    /\ UNCHANGED <<engine, call>>

\* functions.py:160: asyncio.sleep(sleep_secs) after the batch, then the next
\* batch, the next round or the end
RunnerSleep ==
    /\ run.pc = "sleep"
    /\ run' = NextIteration(run, run.execution_count, run.batch_count)
    /\ UNCHANGED <<engine, call>>

NextRunner ==
    \/ RunnerStart
    \/ RunnerCall
    \/ ExecutedSuccessfully
    \/ OnPreConditionError
    \/ OnPostConditionError
    \/ OnCommandExecutionError
    \/ OnOtherError
    \/ RunnerSleep

SpecRunner == InitRunner /\ [][NextRunner]_vars

\* every call of execute_commands ends (it returns or raises) and every
\* asyncio.sleep of the runner returns: the runner is not left waiting for ever
RunnerFairness == WF_vars(NextRunner)

\* the runner with every awaited call ending
SpecRunnerFair == InitRunner /\ [][NextRunner]_vars /\ RunnerFairness

\* the command objects a caller builds once and hands to the runner
SequenceObjects ==
    [name \in {"a", "b", "s"} |->
        IF name = "s" THEN ExchangeAllCurrency("FTX", "ETH", "BTC", 0)
        ELSE ExchangeAllCurrency("FTX", "BTC", "ETH", 0)]

\* command_batches as sequences of those objects: an object may be a member
\* of several batches
SequenceLayouts == { << <<"s">>, <<"a">> >>, << <<"a">>, <<"b", "a">> >> }

\* commands.py:102: the condition object a command builds in __init__ and
\* keeps for its life
HeldSlots == {"selling_currency_balance_condition"}

\* the objects of the batch execute_commands was last called with
LastBatch == IF run.calls = <<>> THEN <<>> ELSE run.layout[run.calls[Len(run.calls)].batch_count]

\* the attributes the held condition objects carry after the last call:
\* those evaluate() set during it, and for the objects that were not part of
\* it those they had before
ObjectAttrs ==
    LET now == {<<LastBatch[i], slot>> : i \in DOMAIN LastBatch, slot \in HeldSlots}
        set == {k \in now : \E i \in DOMAIN LastBatch : LastBatch[i] = k[1] /\ <<i, k[2]>> \in DOMAIN attr}
    IN  [k \in DOMAIN run.objects \cup set |->
            IF k \in set
            THEN attr[<<CHOOSE i \in DOMAIN LastBatch : LastBatch[i] = k[1], k[2]>>]
            ELSE run.objects[k]]

\* pre_condition_responses and post_condition_responses as the command
\* objects carry them after the last call
ObjectResponses ==
    [name \in DOMAIN run.responses \cup {LastBatch[i] : i \in DOMAIN LastBatch} |->
        IF \E i \in DOMAIN LastBatch : LastBatch[i] = name
        THEN cmd_resp[CHOOSE i \in DOMAIN LastBatch : LastBatch[i] = name]
        ELSE run.responses[name]]

InitSequence ==
    /\ NoBatch
    /\ call = NoCall
    /\ \E count \in 1..MaxCount, layout \in SequenceLayouts, first \in BOOLEAN, post \in BOOLEAN :
          run = [pc |-> "start", count |-> count, command_batches |-> Len(layout),
                 fail_on_first_batch_precondition |-> first, fail_on_postconditions |-> post,
                 execution_count |-> 0, batch_count |-> 0, calls |-> <<>>,
                 layout |-> layout, objects |-> EmptyMap, responses |-> EmptyMap]

\* functions.py:140-142: execute_commands(*commands) is called with the
\* objects of the batch, which carry what earlier calls left on them
SequenceCall ==
    /\ run.pc = "call"
    /\ Len(run.calls) < MaxCalls
    /\ LET names == run.layout[run.batch_count]
           objects == ObjectAttrs
           responses == ObjectResponses
       IN  /\ run' = [run EXCEPT !.pc = "awaiting",
                                 !.calls = Append(@, [execution_count |-> run.execution_count,
                                                      batch_count |-> run.batch_count,
                                                      outcome |-> "pending"]),
                                 !.objects = objects,
                                 !.responses = responses]
           /\ cmds' = [i \in DOMAIN names |-> SequenceObjects[names[i]]]
           /\ attr' = [k \in {x \in (DOMAIN names) \X HeldSlots : <<names[x[1]], x[2]>> \in DOMAIN objects} |->
                          objects[<<names[k[1]], k[2]>>]]
           /\ cmd_resp' = [i \in DOMAIN names |->
                              IF names[i] \in DOMAIN responses THEN responses[names[i]]
                              ELSE [pre |-> EmptyMap, post |-> EmptyMap]]
           /\ cst' = [i \in DOMAIN names |-> InitCst]
    /\ pc' = "start"
    /\ condmap' = EmptyMap
    /\ tasks' = EmptyMap
    /\ reads' = [k \in {"pre", "post"} \X Venues \X Methods |-> <<>>]
    /\ resp' = EmptyMap
    /\ result' = EmptyMap
    /\ outcome' = NoOutcome
    /\ UNCHANGED <<call, markets>>

\* the call of execute_commands in progress has ended in the given way
CallEnds(kind) == run.pc = "awaiting" /\ pc = "done" /\ outcome.kind = kind

\* the runner around execute_commands: the steps of the batch in progress
\* (the batches of SequenceLayouts have no deadline and their venue's
\* registry is loaded, so the steps of the passive phase and load_markets
\* do not occur), and the runner's reaction to the way the call ended
NextSequence ==
    \/ RunnerStart
    \/ SequenceCall
    \/ StartPre
    \/ \E e \in Venues, m \in Methods : IssueRead(e, m)
    \/ \E e \in Venues, m \in Methods : ReturnRead(e, m)
    \/ EvaluatePre
    \/ \E i \in Cmds : StartExecute(i)
    \/ \E i \in Cmds : MarketReturn(i)
    \/ FinishExecute
    \/ Settle
    \/ EvaluatePost
    \/ CallEnds("returned") /\ ExecutedSuccessfully
    \/ CallEnds("PreConditionError") /\ OnPreConditionError
    \/ CallEnds("PostConditionError") /\ OnPostConditionError
    \/ CallEnds("CommandExecutionError") /\ OnCommandExecutionError
    \/ RunnerSleep

SpecSequence == InitSequence /\ [][NextSequence]_vars

---------------------------------------------------------------------------
(* Constructors and conversions applied on their own, on Gateway objects  *)
(* with any of the registries and on tickers with any of the prices       *)

\* the outcome of a call: the exception raised (None when it returned) and
\* the value returned
Pending == [raised |-> "pending", value |-> <<>>]
Raises(error) == [raised |-> error, value |-> <<>>]
Returns(value) == [raised |-> None, value |-> <<value>>]
Returned_value(ret) == ret.value[1]

\* a call to make: ret is the outcome of fn(args), then the outcome of the
\* call made on its result
Call(fn, args) == [fn |-> fn, args |-> args, ret |-> Pending, then |-> Pending]

\* fetch_tickers answers one ticker
TickerResponse(symbol, ask, bid) ==
    [m \in {"fetch_tickers"} |-> [s \in {symbol} |-> [ask |-> ask, bid |-> bid]]]

InitCalls ==
    /\ NoBatch
    /\ run = NoRun
    /\ \/ \E e \in Exchanges, f \in Currencies, t \in Currencies :
             call = Call("CurrencyConversion", [exchange |-> e, from_currency |-> f, to_currency |-> t])
       \/ \E e \in Exchanges, f \in Currencies, t \in Currencies, a \in Amounts,
              ask \in Prices, bid \in Prices :
             /\ ~Unresolvable(e, f, t)
             /\ call = Call("convert_amount", [exchange |-> e, from_currency |-> f, to_currency |-> t,
                                               amount |-> a, ask |-> ask, bid |-> bid])
       \/ \E side \in {"buy", "sell"}, symbol \in {<<"ETH", "BTC">>}, a \in Amounts,
              d \in Deadlines, ask \in Prices, bid \in Prices :
             call = Call("create_limit_order_with_timeout",
                         [trading_side |-> side, symbol |-> symbol, amount |-> a,
                          execute_till |-> d, ask |-> ask, bid |-> bid])
       \/ \E e \in Exchanges, f \in Currencies, t \in Currencies, a \in {Rat(-1, 2), Zero, Num(1)},
              ic \in Currencies \cup {None}, m \in BOOLEAN :
             call = Call("ExchangeCurrency",
                         [exchange |-> e, from_currency |-> f, to_currency |-> t, amount |-> a,
                          in_currency |-> ic, execute_till |-> 0, margin |-> m])
       \/ \E e \in Exchanges, f \in Currencies, t \in Currencies :
             call = Call("ExchangeAllCurrency",
                         [exchange |-> e, from_currency |-> f, to_currency |-> t, execute_till |-> 0])

\* CurrencyConversion(exchange, from_currency, to_currency)
CallCurrencyConversion ==
    /\ call.fn = "CurrencyConversion" /\ call.ret = Pending
    /\ LET a == call.args
       IN  call' = [call EXCEPT !.ret =
                       IF Unresolvable(a.exchange, a.from_currency, a.to_currency)
                       THEN Raises("MarketDoesNotExistsError")
                       ELSE Returns(CurrencyConversion(a.exchange, a.from_currency, a.to_currency, 0))]
    /\ UNCHANGED <<engine, run>>

\* CurrencyConversion(exchange, from_currency, to_currency).convert_amount(amount)
\* after evaluate() has set the ticker of the converting symbol as responses
CallConvertAmount ==
    /\ call.fn = "convert_amount" /\ call.ret = Pending
    /\ LET a == call.args
           self == CurrencyConversion(a.exchange, a.from_currency, a.to_currency, 0)
       IN  call' = [call EXCEPT !.ret =
                       Returns(convert_amount(self, a.amount,
                                              TickerResponse(self.converting_symbol, a.ask, a.bid)))]
    /\ UNCHANGED <<engine, run>>

\* the converted amount is converted back by
\* CurrencyConversion(exchange, to_currency, from_currency) on the same responses
CallConvertBack ==
    /\ call.fn = "convert_amount" /\ call.ret # Pending /\ call.then = Pending
    /\ LET a == call.args
           back == CurrencyConversion(a.exchange, a.to_currency, a.from_currency, 1)
       IN  call' = [call EXCEPT !.then =
                       Returns(convert_amount(back, Returned_value(call.ret),
                                              TickerResponse(back.converting_symbol, a.ask, a.bid)))]
    /\ UNCHANGED <<engine, run>>

\* create_limit_order_with_timeout(trading_side, symbol, amount) up to its
\* first Gateway call, the pre-pass having fetched the ticker of the symbol
CallCreateLimitOrder ==
    /\ call.fn = "create_limit_order_with_timeout" /\ call.ret = Pending
    /\ LET a == call.args
           c == [InitCst EXCEPT !.side = a.trading_side, !.symbol = a.symbol, !.amount = a.amount]
       IN  call' = [call EXCEPT !.ret =
                       Returns(create_limit_order_with_timeout(
                                   c, a.execute_till, TickerResponse(a.symbol, a.ask, a.bid)))]
    /\ UNCHANGED <<engine, run>>

\* ExchangeCurrency(exchange, from_currency, to_currency, amount, in_currency, margin=margin)
CallExchangeCurrency ==
    /\ call.fn = "ExchangeCurrency" /\ call.ret = Pending
    /\ LET a == call.args
           error == ExchangeCurrency_raises(a.exchange, a.from_currency, a.to_currency, a.amount,
                                            a.in_currency, a.execute_till, a.margin)
       IN  call' = [call EXCEPT !.ret =
                       IF error # None THEN Raises(error)
                       ELSE Returns(ExchangeCurrency(a.exchange, a.from_currency, a.to_currency,
                                                     a.amount, a.in_currency, a.execute_till, a.margin))]
    /\ UNCHANGED <<engine, run>>

\* ExchangeAllCurrency(exchange, from_currency, to_currency)
CallExchangeAllCurrency ==
    /\ call.fn = "ExchangeAllCurrency" /\ call.ret = Pending
    /\ LET a == call.args
           error == ExchangeAllCurrency_raises(a.exchange, a.from_currency, a.to_currency, a.execute_till)
       IN  call' = [call EXCEPT !.ret =
                       IF error # None THEN Raises(error)
                       ELSE Returns(ExchangeAllCurrency(a.exchange, a.from_currency, a.to_currency,
                                                        a.execute_till))]
    /\ UNCHANGED <<engine, run>>

\* functions.py:21: the precondition pass asks the constructed command for
\* its pre_conditions()
CallPreConditions ==
    /\ call.fn \in {"ExchangeCurrency", "ExchangeAllCurrency"}
    /\ call.ret.raised = None /\ call.then = Pending
    /\ LET command == Returned_value(call.ret)
           error == pre_conditions_raises(command)
       IN  call' = [call EXCEPT !.then =
                       IF error # None THEN Raises(error)
                       ELSE Returns(pre_conditions(<<command>>, 1))]
    /\ UNCHANGED <<engine, run>>

NextCalls ==
    \/ CallCurrencyConversion
    \/ CallConvertAmount
    \/ CallConvertBack
    \/ CallCreateLimitOrder
    \/ CallExchangeCurrency
    \/ CallExchangeAllCurrency
    \/ CallPreConditions

SpecCalls == InitCalls /\ [][NextCalls]_vars

---------------------------------------------------------------------------
(* Properties *)

Trace(i) == cst[i].trace
IsOrder(ev, type) == ev.op = "create_order" /\ ev.type = type
Events(i, op) == {k \in 1..Len(Trace(i)) : Trace(i)[k].op = op}
Orders(i, type) == {k \in 1..Len(Trace(i)) : IsOrder(Trace(i)[k], type)}
FiniteDeadline(i) == cmds[i].execute_till > 0

\* create_limit_order_with_timeout has been entered by command i
Entered(i) == cst[i].pc # "init" /\ cst[i].side # None

\* the amount ExchangeAllCurrency.execute asks the order state machine to trade
RequestedAmount(i) ==
    LET cond == selling_currency_balance_condition(cmds, i)
        balance == get_currency_balance(cmd_resp[i].pre, cmds[i].from_currency)
    IN  IF cond.is_symbol_reversed THEN balance
        ELSE RDiv(balance, cmd_resp[i].pre["fetch_tickers"][cond.converting_symbol].bid)

\* the preconditions of the batch that are false against the pre-pass response map
FalsePreConditions ==
    {c \in UNION {pre_conditions(cmds, i) : i \in Cmds} :
        IsFalse(evaluate(c, cmd_resp[c.oid[1]].pre))}

Keys(conditions) == {CondKey(c) : c \in conditions}

\* C1: when the precondition pass yields failed conditions, execute_commands
\* raises PreConditionError carrying exactly the preconditions that are false
\* against the pass's responses, and no command's execute() has started: no
\* create_order, cancel_order, fetch_order or fetch_order_status was issued.
C1_PreconditionGate ==
    /\ outcome.kind = "PreConditionError" =>
          /\ pc = "done"
          /\ outcome.failed_conditions # {}
          /\ outcome.failed_conditions = result["pre"].failed
          /\ Keys(outcome.failed_conditions) = Keys(FalsePreConditions)
          /\ \A i \in Cmds : cst[i] = InitCst
    /\ ("pre" \in DOMAIN result /\ Keys(FalsePreConditions) # {}) =>
          /\ outcome.kind = "PreConditionError"
          /\ \A i \in Cmds : cst[i] = InitCst

\* C1 witness: a batch of two commands is aborted although every
\* precondition of one of them holds
C1_Witness ==
    /\ outcome.kind = "PreConditionError"
    /\ N = 2
    /\ \E i \in Cmds :
          /\ pre_conditions(cmds, i) # {}
          /\ Keys(pre_conditions(cmds, i)) \cap Keys(outcome.failed_conditions) = {}

\* the conditions command i contributes to the pass of a phase
ConditionsOf(phase, i) ==
    IF phase = "pre" THEN pre_conditions(cmds, i) ELSE post_conditions(cmds, i, cmd_resp[i].pre)

\* some condition of a command of venue e declares method m in the pass
Required(phase, e, m) ==
    \E i \in Cmds : /\ cmds[i].exchange = e
                    /\ \E c \in ConditionsOf(phase, i) : m \in DOMAIN ccxt_methods(c)

\* the symbols the conditions of venue e declare for method m in the pass
Declared(phase, e, m) ==
    UNION {ccxt_methods(c)[m] :
              c \in {x \in UNION {ConditionsOf(phase, i) : i \in {j \in Cmds : cmds[j].exchange = e}} :
                        m \in DOMAIN ccxt_methods(x)}}

\* C2: in one evaluation pass every (venue, call name) is read exactly once
\* if a condition of a command of that venue declares it and never otherwise,
\* and a read's parameters come from the conditions of its own venue only.
C2_OneCallPerVenueAndMethod ==
    \A phase \in {"pre", "post"}, e \in Venues, m \in Methods :
        /\ Len(reads[<<phase, e, m>>]) <= 1
        /\ phase \in DOMAIN result =>
              Len(reads[<<phase, e, m>>]) = (IF Required(phase, e, m) THEN 1 ELSE 0)
        /\ \A k \in 1..Len(reads[<<phase, e, m>>]) :
              /\ (phase = "post" => pc \in {"post_pass", "done"})
              /\ ((phase = "pre" \/ pc \in {"post_pass", "done"}) =>
                     reads[<<phase, e, m>>][k] \subseteq Declared(phase, e, m))

\* C2 witness: two commands of one venue both need fetch_balance, a command
\* pass is over and the venue was read once
C2_Witness ==
    /\ "pre" \in DOMAIN result
    /\ N = 2
    /\ cmds[1].exchange = cmds[2].exchange
    /\ \A i \in Cmds : \E c \in pre_conditions(cmds, i) : "fetch_balance" \in DOMAIN ccxt_methods(c)
    /\ Len(reads[<<"pre", cmds[1].exchange, "fetch_balance">>]) = 1
    /\ \E e \in Venues : \A m \in Methods : Len(reads[<<"pre", e, m>>]) = 0

\* the market amount create_limit_order_with_timeout owes after fetch_order
\* reported the filled quantity
ExpectedRemainder(i, filled) ==
    IF RLt(Zero, filled) THEN RSub(RequestedAmount(i), filled) ELSE RequestedAmount(i)

\* the events of command i up to a cancel_order at position k: one limit
\* order, then only status polls that saw the order open, then the cancel
\* at the deadline; after a successful cancel fetch_order, after its answer
\* one market order for the remainder, and nothing else
TimeoutFallbackAt(i, k) ==
    LET tr == Trace(i)
    IN  /\ k >= 2
        /\ IsOrder(tr[1], "limit") /\ tr[1].result = "ok"
        /\ \A j \in 2..(k - 1) :
              tr[j].op = "fetch_order_status" /\ tr[j].result \in {"open", "cancelled"}
        /\ cst[i].elapsed = cmds[i].execute_till
        /\ Len(tr) <= k + 2
        /\ Len(tr) >= k + 1 => (tr[k].result = "ok" /\ tr[k + 1].op = "fetch_order")
        /\ tr[k].result = "ok" => Len(tr) >= k + 1
        /\ (Len(tr) >= k + 1 /\ tr[k + 1].result = "ok") => Len(tr) = k + 2
        /\ Len(tr) = k + 2 =>
              /\ tr[k + 1].result = "ok"
              /\ IsOrder(tr[k + 2], "market")
              /\ tr[k + 2].amount = ExpectedRemainder(i, tr[k + 1].filled)
              /\ tr[k + 2].side = tr[1].side /\ tr[k + 2].symbol = tr[1].symbol

\* C3 (amended): execute-till with a finite positive deadline on an order
\* that stays open places exactly one limit order, polls its status zero or
\* more times (never when the deadline is shorter than the polling
\* interval), calls cancel_order exactly once when the deadline elapses, and
\* after a successful cancel calls fetch_order and then places exactly one
\* market order for the requested amount minus the filled quantity when
\* filled > 0 and for the full requested amount when filled is 0, in this order.
C3_TimeoutFallback ==
    \A i \in Cmds : FiniteDeadline(i) =>
        /\ Cardinality(Orders(i, "limit")) <= 1
        /\ Cardinality(Orders(i, "market")) <= 1
        /\ Cardinality(Events(i, "cancel_order")) <= 1
        /\ Cardinality(Events(i, "fetch_order")) <= 1
        /\ \A k \in Events(i, "cancel_order") : TimeoutFallbackAt(i, k)
        /\ (Orders(i, "market") # {} \/ Events(i, "fetch_order") # {}) =>
              Events(i, "cancel_order") # {}

\* C3 as stated: the same, and the status is polled (at least once) before
\* the cancel
C3_Original ==
    /\ C3_TimeoutFallback
    /\ \A i \in Cmds : FiniteDeadline(i) =>
          \A k \in Events(i, "cancel_order") :
              \E j \in 2..(k - 1) : Trace(i)[j].op = "fetch_order_status"

\* C3 witness: limit order, polls, cancel at the deadline, partial fill
\* reported, market order for the remainder
C3_Witness ==
    \E i \in Cmds :
        /\ FiniteDeadline(i)
        /\ cst[i].pc = "returned"
        /\ \E k \in Events(i, "cancel_order") :
              /\ k >= 4
              /\ Len(Trace(i)) = k + 2
              /\ RLt(Zero, Trace(i)[k + 1].filled)
              /\ RLt(Trace(i)[k + 2].amount, RequestedAmount(i))
              /\ Trace(i)[k + 2].result = "ok"

\* C4: when cancel_order fails with order-not-found or invalid-order after
\* the deadline elapsed, execute() returns normally with exactly one limit
\* order placed, no fetch_order and no market order, and the command is not
\* reported as failed.
C4_CancelRace ==
    \A i \in Cmds : \A k \in Events(i, "cancel_order") :
        Trace(i)[k].result \in {"OrderNotFound", "InvalidOrder"} =>
            /\ cst[i].pc = "returned"
            /\ cst[i].error = None
            /\ Len(Trace(i)) = k
            /\ Cardinality(Orders(i, "limit")) = 1
            /\ Events(i, "fetch_order") = {}
            /\ Orders(i, "market") = {}
            /\ cst[i].elapsed = cmds[i].execute_till
            /\ i \notin DOMAIN outcome.failed_commands_dict

\* C4 witness: the cancel failed with invalid-order and the batch went on to
\* its postcondition pass
C4_Witness ==
    \E i \in Cmds : \E k \in Events(i, "cancel_order") :
        /\ Trace(i)[k].result = "InvalidOrder"
        /\ pc = "done"
        /\ outcome.kind \in {"PostConditionError", "returned"}

\* C5: execute-till with deadline 0 issues no limit order, no status poll, no
\* cancel and no fetch_order, and places exactly one market order for the
\* full requested amount.
C5_ZeroDeadline ==
    \A i \in Cmds : (cmds[i].cls = "ExchangeAllCurrency" /\ cmds[i].execute_till = 0) =>
        /\ Orders(i, "limit") = {}
        /\ Events(i, "fetch_order_status") = {}
        /\ Events(i, "cancel_order") = {}
        /\ Events(i, "fetch_order") = {}
        /\ Entered(i) =>
              /\ Len(Trace(i)) = 1
              /\ IsOrder(Trace(i)[1], "market")
              /\ Trace(i)[1].amount = RequestedAmount(i)

\* C5 witness: a command with deadline 0 has returned from its market order
C5_Witness ==
    \E i \in Cmds :
        /\ cmds[i].cls = "ExchangeAllCurrency" /\ cmds[i].execute_till = 0
        /\ cst[i].pc = "returned"
        /\ Trace(i)[1].result = "ok"

\* C6: when a status poll answers a status other than "open" before the
\* deadline, polling stops at that poll and execute() returns with no
\* cancel_order call and no market order.
C6_ClosedBeforeDeadline ==
    \A i \in Cmds : \A k \in Events(i, "fetch_order_status") :
        Trace(i)[k].result = "closed" =>
            /\ Len(Trace(i)) = k
            /\ cst[i].pc = "returned"
            /\ cst[i].elapsed <= cmds[i].execute_till
            /\ Events(i, "cancel_order") = {}
            /\ Orders(i, "market") = {}
            /\ \A j \in 2..(k - 1) : Trace(i)[j].result = "open"

\* C6 witness: the second poll finds the order closed
C6_Witness ==
    \E i \in Cmds :
        /\ Len(Trace(i)) = 3
        /\ Trace(i)[2].result = "open"
        /\ Trace(i)[3].op = "fetch_order_status" /\ Trace(i)[3].result = "closed"

\* C7: when a status poll fails with order-not-found the order counts as
\* closed: execute() returns without error, no further poll, no cancel_order
\* and no market order is issued.
C7_PollOrderNotFound ==
    \A i \in Cmds : \A k \in Events(i, "fetch_order_status") :
        Trace(i)[k].result = "OrderNotFound" =>
            /\ Len(Trace(i)) = k
            /\ cst[i].pc = "returned"
            /\ cst[i].error = None
            /\ Events(i, "cancel_order") = {}
            /\ Orders(i, "market") = {}
            /\ i \notin DOMAIN outcome.failed_commands_dict

\* C7 witness: the first poll failed with order-not-found and the batch
\* went on to its postcondition pass
C7_Witness ==
    \E i \in Cmds :
        /\ Len(Trace(i)) = 2
        /\ Trace(i)[2].op = "fetch_order_status" /\ Trace(i)[2].result = "OrderNotFound"
        /\ pc \in {"sleep", "post_pass", "done"}

\* C8: execute-till without a deadline places exactly one limit order and
\* returns as soon as the placement answers; no status poll, cancel,
\* fetch_order or market order is ever issued.
C8_NoDeadline ==
    \A i \in Cmds : (cmds[i].cls = "ExchangeAllCurrency" /\ cmds[i].execute_till = NoTimeout) =>
        /\ Len(Trace(i)) <= 1
        /\ \A k \in 1..Len(Trace(i)) : IsOrder(Trace(i)[k], "limit")
        /\ (Len(Trace(i)) = 1 /\ Trace(i)[1].result = "ok") => cst[i].pc = "returned"
        /\ cst[i].pc = "returned" => (Len(Trace(i)) = 1 /\ Trace(i)[1].result = "ok")
        /\ cst[i].pc \notin {"sleeping", "polling", "cancel_call", "fetch_call", "market_call"}

\* C8 witness: a command without deadline returned after its limit order
C8_Witness ==
    \E i \in Cmds :
        /\ cmds[i].execute_till = NoTimeout
        /\ cst[i].pc = "returned"
        /\ IsOrder(Trace(i)[1], "limit")

\* C9: when preconditions pass and some execute() raises, execute_commands
\* raises CommandExecutionError whose mapping holds exactly the commands
\* that raised, each with its own error, whatever their position.
C9_CommandExecutionError ==
    /\ outcome.kind = "CommandExecutionError" =>
          /\ pc = "done"
          /\ result["pre"].failed = {}
          /\ DOMAIN outcome.failed_commands_dict = {i \in Cmds : cst[i].pc = "raised"}
          /\ DOMAIN outcome.failed_commands_dict # {}
          /\ \A i \in DOMAIN outcome.failed_commands_dict :
                outcome.failed_commands_dict[i] = cst[i].error /\ cst[i].error # None
    /\ (pc \in {"sleep", "post_pass", "done"} /\ \E i \in Cmds : cst[i].pc = "raised") =>
          outcome.kind = "CommandExecutionError"

\* C9 witness: the first command raised, the second completed normally
C9_Witness ==
    /\ outcome.kind = "CommandExecutionError"
    /\ N = 2
    /\ cst[1].pc = "raised"
    /\ cst[2].pc = "returned"

\* the trading side of ExchangeAllCurrency i
OwnSide(i) ==
    IF selling_currency_balance_condition(cmds, i).is_symbol_reversed THEN "sell" ELSE "buy"

\* C10: execution is not fail-fast: when an execute() raises, the siblings
\* still run to completion before the batch is reported, and every order of
\* a command is on the command's own side (no compensating order).
C10_NotFailFast ==
    /\ (pc = "done" /\ outcome.kind = "CommandExecutionError") =>
          \A i \in Cmds : Terminal(cst[i])
    /\ pc # "exec" => \A i \in Cmds : cst[i].pc \in {"init", "returned", "raised"}
    /\ \A i \in Cmds : \A k \in Events(i, "create_order") :
          /\ Trace(i)[k].side = OwnSide(i)
          /\ Cardinality(Events(i, "create_order")) <= 2

\* C10 witness: one command raised at once, its sibling ran its whole
\* fallback and placed a limit and a market order
C10_Witness ==
    /\ outcome.kind = "CommandExecutionError"
    /\ \E i, j \in Cmds :
          /\ cst[i].pc = "raised" /\ Trace(i) = <<>>
          /\ cst[j].pc = "returned"
          /\ Orders(j, "limit") # {} /\ Orders(j, "market") # {}

\* the postconditions of the batch that are false against the post-pass response map
FalsePostConditions ==
    {c \in UNION {post_conditions(cmds, i, cmd_resp[i].pre) : i \in Cmds} :
        IsFalse(evaluate(c, cmd_resp[c.oid[1]].post))}

IssuedReads(phase) ==
    {em \in Venues \X Methods : reads[<<phase, em[1], em[2]>>] # <<>>}

\* every read task of the pass in progress has its response
AllReadsCompleted == \A em \in DOMAIN tasks : tasks[em].st = "done"

\* C12: phases of one run of execute_commands are ordered: no condition is
\* evaluated before every read of its pass has completed, no execute() starts
\* before the preconditions are evaluated, the settle delay begins only when
\* every execute() has finished, no post-pass read is issued before the
\* settle delay has elapsed, and no postcondition is evaluated before every
\* post-pass read has completed.
C12_PhaseOrdering ==
    /\ pc \in {"start", "pre_pass"} => "pre" \notin DOMAIN result
    /\ pc \in {"exec", "sleep", "done"} => AllReadsCompleted
    /\ \A i \in Cmds : cst[i] # InitCst => "pre" \in DOMAIN result
    /\ pc \in {"sleep", "post_pass"} => \A i \in Cmds : cst[i].pc = "returned"
    /\ "post" \in DOMAIN result => \A i \in Cmds : cst[i].pc = "returned"
    /\ pc \in {"start", "pre_pass", "exec", "sleep"} =>
          /\ IssuedReads("post") = {}
          /\ "post" \notin DOMAIN result
    /\ pc = "post_pass" => "post" \notin DOMAIN result
    /\ pc \in {"pre_pass", "post_pass"} =>
          IssuedReads(Phase) = {em \in DOMAIN tasks : tasks[em].st \in {"called", "done"}}
    /\ "post" \in DOMAIN result => (pc = "done" /\ AllReadsCompleted)

\* C12 witness: a two-venue batch went through both passes, with several
\* reads in each pass and orders placed in between
C12_Witness ==
    /\ pc = "done"
    /\ "post" \in DOMAIN result
    /\ Cardinality(IssuedReads("pre")) >= 3
    /\ Cardinality(IssuedReads("post")) >= 2
    /\ \A i \in Cmds : Orders(i, "limit") # {}

\* the symbols command i alone declares for method m in the pass
DeclaredBy(phase, i, m) ==
    UNION {ccxt_methods(c)[m] : c \in {x \in ConditionsOf(phase, i) : m \in DOMAIN ccxt_methods(x)}}

\* C13: the symbols parameter of the fetch_tickers and of the fetch_positions
\* call issued for a venue in a pass is the union of the symbols declared by
\* the conditions of that venue's commands in that pass.
C13_SymbolsAreTheUnion ==
    \A phase \in {"pre", "post"}, e \in Venues, m \in {"fetch_tickers", "fetch_positions"} :
        \A k \in 1..Len(reads[<<phase, e, m>>]) :
            reads[<<phase, e, m>>][k] = Declared(phase, e, m)

\* C13 witness: two commands of one venue declare different symbols, neither
\* declares all of them, and the venue's fetch_tickers and fetch_positions
\* reads were issued
C13_Witness ==
    /\ N = 2
    /\ cmds[1].exchange = cmds[2].exchange
    /\ reads[<<"pre", cmds[1].exchange, "fetch_positions">>] # <<>>
    /\ Cardinality(reads[<<"pre", cmds[1].exchange, "fetch_positions">>][1]) = 2
    /\ reads[<<"pre", cmds[1].exchange, "fetch_tickers">>] # <<>>
    /\ \A i \in Cmds :
          /\ DeclaredBy("pre", i, "fetch_tickers") # {}
          /\ DeclaredBy("pre", i, "fetch_tickers")
                # reads[<<"pre", cmds[1].exchange, "fetch_tickers">>][1]

\* the condition objects the commands of the batch hand to the pass of a phase
BatchConditions(phase) == UNION {ConditionsOf(phase, i) : i \in Cmds}

\* what a condition object of the batch evaluates to against the response
\* map its command got in the phase
ValueOf(phase, c) == evaluate(c, cmd_resp[c.oid[1]][phase])

Asserting(phase) == {c \in BatchConditions(phase) : c.cls \in BaseConditions}

\* C14: an evaluation pass partitions the conditions by result: the
\* successful set holds exactly the conditions evaluating to true, the failed
\* set exactly those evaluating to false, a condition evaluating to
\* not-applicable is in neither, the sets are disjoint and their union is
\* the set of asserting conditions of the batch.
C14_Partition ==
    \A phase \in DOMAIN result :
        LET successful == result[phase].successful
            failed == result[phase].failed
        IN  /\ successful \cup failed \subseteq BatchConditions(phase)
            /\ \A c \in successful : ValueOf(phase, c) = "True"
            /\ \A c \in failed : ValueOf(phase, c) = "False"
            /\ Keys(successful) = Keys({c \in Asserting(phase) : ValueOf(phase, c) = "True"})
            /\ Keys(failed) = Keys({c \in Asserting(phase) : ValueOf(phase, c) = "False"})
            /\ successful \cap failed = {}
            /\ Keys(successful) \cap Keys(failed) = {}
            /\ Keys(successful \cup failed) = Keys(Asserting(phase))
            /\ \A c \in BatchConditions(phase) :
                  ValueOf(phase, c) = None => c \notin successful \cup failed
            /\ \A c \in BatchConditions(phase) :
                  c.cls \in {"CurrencyConversion", "PositionFetch"} => ValueOf(phase, c) = None

\* C14 witness: one pass held a true condition, a false condition, a
\* CurrencyConversion and a PositionFetch
C14_Witness ==
    /\ "pre" \in DOMAIN result
    /\ result["pre"].successful # {}
    /\ result["pre"].failed # {}
    /\ \E c, d \in BatchConditions("pre") :
          c.cls = "CurrencyConversion" /\ d.cls = "PositionFetch"

\* the comparator an alias stands for
Alias(comparator) ==
    CASE comparator = "gte" -> ">=" [] comparator = "gt" -> ">"
      [] comparator = "lte" -> "<=" [] comparator = "lt" -> "<"
      [] comparator = "eq" -> "==" [] comparator = "neq" -> "!="
      [] OTHER -> comparator

\* kind, extra parameters, comparator and threshold a condition is requested
\* with, aliases and an in_currency equal to the currency normalised
RequestedAs(p) ==
    <<p.cls, p.currency, p.symbol, IF p.in_currency = p.currency THEN None ELSE p.in_currency,
      Alias(p.comparator), p.value>>

\* the asserting conditions the test commands of the batch are built from
AssertingRequests ==
    UNION {{<<i, p>> : p \in {q \in cmds[i].test_conditions : q.cls \in BaseConditions}} : i \in Cmds}

ObjectOf(ip) == NewCondition(cmds[ip[1]].exchange, ip[2], <<ip[1], ip[2].slot>>)

\* C15: two conditions are equal, with equal hash, exactly when kind, venue,
\* extra parameters, normalised comparator and threshold are identical; equal
\* conditions requested by different commands of a batch are evaluated once
\* and appear once in the successful/failed sets.
C15_StructuralEquality ==
    /\ \A x, y \in AssertingRequests :
          /\ CondEq(ObjectOf(x), ObjectOf(y)) <=>
                (cmds[x[1]].exchange = cmds[y[1]].exchange /\ RequestedAs(x[2]) = RequestedAs(y[2]))
          /\ CondEq(ObjectOf(x), ObjectOf(y)) => CondKey(ObjectOf(x)) = CondKey(ObjectOf(y))
    /\ \A e \in DOMAIN condmap : \A a, b \in condmap[e] : CondEq(a, b) => a = b
    /\ \A phase \in DOMAIN result :
          \A a, b \in result[phase].successful \cup result[phase].failed : CondEq(a, b) => a = b
    /\ "pre" \in DOMAIN result =>
          \A c \in Asserting("pre") :
              Cardinality({d \in BatchConditions("pre") : d.oid \in DOMAIN attr /\ CondEq(c, d)}) = 1

\* C15 witness: two commands of one venue request the same condition, one as
\* 'gte' and one as '>=' with in_currency equal to the currency; the pass
\* evaluated one object and reports one condition
C15_Witness ==
    /\ "pre" \in DOMAIN result
    /\ N = 2
    /\ \E x, y \in AssertingRequests :
          /\ x[1] # y[1]
          /\ x[2].comparator # y[2].comparator
          /\ x[2].in_currency # y[2].in_currency
          /\ CondEq(ObjectOf(x), ObjectOf(y))
          /\ ObjectOf(x).oid \in DOMAIN attr
          /\ ObjectOf(y).oid \notin DOMAIN attr
          /\ Cardinality(result["pre"].successful) = 1

\* the phase whose reads the tasks hold once a pass is over
LastPhase == IF "post" \in DOMAIN result THEN "post" ELSE "pre"

\* what the Gateway answered to the reads of venue e in the last pass
AnswersOf(e) ==
    [m \in {n \in Methods : <<e, n>> \in DOMAIN tasks} |-> tasks[<<e, m>>].response]

\* C16: after the evaluation pass of a phase, whether or not a condition
\* failed, every command holds under that phase the response map of its own
\* venue, commands of one venue hold the same map, and the map of the other
\* phase is as it was.
C16_ResponsesAttached ==
    /\ pc \in {"exec", "sleep", "done"} =>
          \A i \in Cmds :
              /\ cmd_resp[i][LastPhase] = AnswersOf(cmds[i].exchange)
              /\ \A j \in Cmds : cmds[i].exchange = cmds[j].exchange =>
                    cmd_resp[i][LastPhase] = cmd_resp[j][LastPhase]
    /\ "pre" \notin DOMAIN result => \A i \in Cmds : cmd_resp[i].pre = EmptyMap
    /\ "post" \notin DOMAIN result => \A i \in Cmds : cmd_resp[i].post = EmptyMap
    /\ "pre" \in DOMAIN result =>
          \A i \in Cmds : \A c \in pre_conditions(cmds, i) :
              c.oid \in DOMAIN attr => cmd_resp[i].pre = attr[c.oid].responses

\* C16 witness: the preconditions of a two-venue batch failed and each
\* command holds the answers of its own venue
C16_Witness ==
    /\ outcome.kind = "PreConditionError"
    /\ N = 2
    /\ cmd_resp[1].pre # cmd_resp[2].pre
    /\ \A i \in Cmds : "fetch_balance" \in DOMAIN cmd_resp[i].pre
    /\ cmd_resp[1].pre["fetch_balance"] # cmd_resp[2].pre["fetch_balance"]

\* the ticker of command i's trading symbol in its pre-pass response map
PreTicker(i) == cmd_resp[i].pre["fetch_tickers"][cst[i].symbol]

\* C17: between the two passes no fetch_balance, fetch_tickers or
\* fetch_positions call is issued: execute() issues none, the amount it
\* trades and the price of its passive order are computed from the pre-pass
\* response map, and per batch every such call is issued at most twice for a
\* venue, once per pass.
C17_NoReadMidBatch ==
    /\ \A i \in Cmds : \A k \in 1..Len(Trace(i)) : Trace(i)[k].op \notin Methods
    /\ pc \in {"exec", "sleep"} =>
          /\ IssuedReads("post") = {}
          /\ \A em \in IssuedReads("pre") : tasks[em].st = "done"
    /\ \A e \in Venues, m \in Methods :
          /\ Len(reads[<<"pre", e, m>>]) <= 1 /\ Len(reads[<<"post", e, m>>]) <= 1
          /\ Len(reads[<<"pre", e, m>>]) + Len(reads[<<"post", e, m>>]) <= 2
    /\ \A i \in Cmds : Trace(i) # <<>> =>
          /\ Trace(i)[1].amount = RequestedAmount(i)
          /\ \A k \in Orders(i, "limit") :
                Trace(i)[k].price = LimitPrice(PreTicker(i), Trace(i)[k].side)

\* C17 witness: a command placed its passive and its aggressive order, the
\* post pass read the balance a second time and got another answer than the
\* pre pass
C17_Witness ==
    /\ "post" \in DOMAIN result
    /\ \E i \in Cmds :
          /\ Orders(i, "limit") # {} /\ Orders(i, "market") # {}
          /\ Len(reads[<<"pre", cmds[i].exchange, "fetch_balance">>]) = 1
          /\ Len(reads[<<"post", cmds[i].exchange, "fetch_balance">>]) = 1
          /\ cmd_resp[i].post["fetch_balance"] # cmd_resp[i].pre["fetch_balance"]

\* C18: the market registry of a venue is loaded lazily and at most once per
\* venue: load_markets is invoked once when several calls of one venue are
\* dispatched in a pass with the registry empty, and never when the registry
\* is present.
C18_LoadMarketsOnce ==
    \A e \in Venues :
        /\ Len(markets[e].load_markets) <= 1
        /\ \A k \in 1..Len(markets[e].load_markets) : markets[e].load_markets[k] = FALSE

\* C18 witness: two calls of one venue were dispatched in the pre pass with
\* the registry empty and load_markets was invoked for each of them
C18_Witness ==
    \E e \in Venues :
        /\ pc = "pre_pass"
        /\ Len(markets[e].load_markets) = 2
        /\ ~markets[e].loaded
        /\ Cardinality({m \in Methods : <<e, m>> \in DOMAIN tasks /\ tasks[<<e, m>>].st = "loading"}) = 2

\* the answers of the Gateway that are no error
NormalAnswers == {"pending", "ok", "open", "closed", "cancelled"}

\* event k of command i was answered with an error that is not one of the
\* locally recovered races
UnrecoveredError(i, k) ==
    LET ev == Trace(i)[k]
    IN  /\ ev.result \notin NormalAnswers
        /\ ~(ev.op = "fetch_order_status" /\ ev.result = "OrderNotFound")
        /\ ~(ev.op = "cancel_order" /\ ev.result \in {"OrderNotFound", "InvalidOrder"})

\* C19: a Gateway error of the execute-till machine that is not a locally
\* recovered race (a create_order, fetch_order, other polling or other
\* cancellation error) propagates out of execute(): it is the last call of
\* the command, no order is placed after it, and the command is reported in
\* CommandExecutionError with that error.
C19_ErrorsPropagate ==
    \A i \in Cmds : \A k \in 1..Len(Trace(i)) :
        UnrecoveredError(i, k) =>
            /\ k = Len(Trace(i))
            /\ cst[i].pc = "raised"
            /\ cst[i].error = Trace(i)[k].result
            /\ pc \in {"exec", "done"}
            /\ pc = "done" =>
                  /\ outcome.kind = "CommandExecutionError"
                  /\ i \in DOMAIN outcome.failed_commands_dict
                  /\ outcome.failed_commands_dict[i] = Trace(i)[k].result

\* C19 witness: the cancellation failed with an error that is no race, no
\* market order followed, and the batch reported the command
C19_Witness ==
    /\ outcome.kind = "CommandExecutionError"
    /\ \E i \in DOMAIN outcome.failed_commands_dict :
          /\ Trace(i) # <<>>
          /\ Trace(i)[Len(Trace(i))].op = "cancel_order"
          /\ Trace(i)[Len(Trace(i))].result = "ExchangeError"
          /\ outcome.failed_commands_dict[i] = "ExchangeError"
          /\ Events(i, "fetch_order_status") # {}

\* the longest time p answered status polls and the sleep after them can take
LongestWait(p) == (p + 1) * PollingInterval + p * MaxLatency

\* C20: every execute-till request creates at most one limit and at most one
\* market order, never a limit order after a market order, calls
\* cancel_order at most once and only when the deadline has elapsed with the
\* order still open, and places a market order after a limit order only
\* when cancel_order returned successfully.
C20_RequestInvariant ==
    \A i \in Cmds :
        /\ Cardinality(Orders(i, "limit")) <= 1
        /\ Cardinality(Orders(i, "market")) <= 1
        /\ Cardinality(Events(i, "create_order")) <= 2
        /\ \A k \in Orders(i, "limit") : \A j \in Orders(i, "market") : k < j
        /\ Cardinality(Events(i, "cancel_order")) <= 1
        /\ \A k \in Events(i, "cancel_order") :
              /\ FiniteDeadline(i)
              /\ Orders(i, "limit") = {1} /\ Trace(i)[1].result = "ok"
              /\ \A j \in 1..(k - 1) : ~IsOrder(Trace(i)[j], "market")
              /\ \A j \in Events(i, "fetch_order_status") :
                    j < k /\ Trace(i)[j].result \in {"open", "cancelled"}
              /\ cmds[i].execute_till <= LongestWait(Cardinality(Events(i, "fetch_order_status")))
              /\ cst[i].elapsed = cmds[i].execute_till
        /\ (Orders(i, "limit") # {} /\ Orders(i, "market") # {}) =>
              \E k \in Events(i, "cancel_order") :
                  /\ Trace(i)[k].result = "ok"
                  /\ \A j \in Orders(i, "market") : k < j

\* C20 witness: a request with the long deadline polled the open order
\* twice, cancelled it at the deadline and placed the market order
C20_Witness ==
    \E i \in Cmds :
        /\ cmds[i].execute_till = LongDeadline
        /\ Cardinality(Events(i, "fetch_order_status")) = 2
        /\ \E k \in Events(i, "cancel_order") : Trace(i)[k].result = "ok"
        /\ Orders(i, "limit") # {} /\ Orders(i, "market") # {}
        /\ cst[i].pc = "returned"

\* C21: the deadline race has a bounded loser: no fetch_order_status call of
\* a request is issued after its deadline elapsed, the polling loop is not
\* running once cancel_order is called, and every status poll of a request
\* precedes its cancel_order call.
C21_BoundedLoser ==
    \A i \in Cmds :
        /\ \A j \in Events(i, "fetch_order_status") :
              /\ FiniteDeadline(i)
              /\ Cardinality({l \in Events(i, "fetch_order_status") : l <= j}) * PollingInterval
                    <= cmds[i].execute_till
              /\ \A k \in Events(i, "cancel_order") : j < k
        /\ cst[i].pc \in {"sleeping", "polling"} =>
              /\ Events(i, "cancel_order") = {}
              /\ cst[i].elapsed <= cmds[i].execute_till
        /\ \A k \in Events(i, "cancel_order") :
              \A j \in Events(i, "fetch_order_status") : Trace(i)[j].result # "pending"

\* C21 witness: the deadline elapsed while a status poll was in flight; the
\* poll was cancelled, cancel_order was called and the request went on
C21_Witness ==
    \E i \in Cmds : \E k \in Events(i, "cancel_order") :
        /\ k >= 3
        /\ Trace(i)[k - 1].op = "fetch_order_status"
        /\ Trace(i)[k - 1].result = "cancelled"
        /\ Trace(i)[k].result = "ok"
        /\ Terminal(cst[i])

\* every condition object that converts a currency into itself
SameCurrencyConditions ==
    {BalanceCondition(e, x, ">=", a, ic, <<0, "same">>) :
        e \in Exchanges, x \in Currencies, a \in {Zero, Num(1)}, ic \in {None}}
    \cup {BalanceCondition(e, x, ">=", Zero, x, <<0, "same">>) : e \in Exchanges, x \in Currencies}
    \cup {CurrencyConversion(e, x, x, <<0, "same">>) : e \in Exchanges, x \in Currencies}

\* the pass of the phase has conditions, all of them same-currency BalanceConditions
SameCurrencyPass(phase) ==
    /\ BatchConditions(phase) # {}
    /\ \A c \in BatchConditions(phase) :
          c.cls = "BalanceCondition" /\ c.from_currency = c.to_currency

\* a same-currency condition resolves to no symbol, converts every amount to
\* itself without reading a response and declares no fetch_tickers call
SameCurrencyIsIdentity ==
    \A c \in SameCurrencyConditions :
        /\ c.converting_symbol = NoSymbol
        /\ ~c.is_symbol_reversed
        /\ _get_converting_symbol_and_reversed(c.exchange, c.from_currency, c.to_currency)[3]
        /\ \A a \in Amounts : convert_amount(c, a, EmptyMap) = a
        /\ "fetch_tickers" \notin DOMAIN ccxt_methods(c)
        /\ c.cls = "BalanceCondition" => DOMAIN ccxt_methods(c) = {"fetch_balance"}

\* C22: a conversion of a currency into itself is the identity: the resolved
\* symbol is none and not reversed whatever the registry holds, convert_amount
\* returns its argument without reading any response, and the condition
\* declares no fetch_tickers call; a pass whose conditions are all
\* same-currency BalanceConditions issues fetch_balance once per venue that
\* has conditions and fetch_tickers never.
C22_SameCurrencyIdentity ==
    /\ SameCurrencyIsIdentity
    /\ \A phase \in DOMAIN result :
          SameCurrencyPass(phase) =>
              \A e \in Venues :
                  /\ reads[<<phase, e, "fetch_tickers">>] = <<>>
                  /\ reads[<<phase, e, "fetch_positions">>] = <<>>
                  /\ Len(reads[<<phase, e, "fetch_balance">>])
                        = IF \E i \in Cmds : cmds[i].exchange = e /\ ConditionsOf(phase, i) # {}
                          THEN 1 ELSE 0
    /\ pc = "pre_pass" /\ SameCurrencyPass("pre") =>
          \A e \in Venues : /\ reads[<<"pre", e, "fetch_tickers">>] = <<>>
                            /\ Len(reads[<<"pre", e, "fetch_balance">>]) <= 1

\* C22 witness: the precondition pass of a batch whose conditions are two
\* same-currency BalanceConditions of one venue is over: fetch_balance was
\* read once, fetch_tickers never
C22_Witness ==
    /\ "pre" \in DOMAIN result
    /\ SameCurrencyPass("pre")
    /\ Cardinality(BatchConditions("pre")) = 2
    /\ Len(reads[<<"pre", "FTX", "fetch_balance">>]) = 1
    /\ reads[<<"pre", "FTX", "fetch_tickers">>] = <<>>
    /\ \A c \in BatchConditions("pre") :
          balance_amount_in_currency(c, cmd_resp[c.oid[1]].pre)
             = get_currency_balance(cmd_resp[c.oid[1]].pre, c.currency)

\* the call fn(args) is over
Called(fn) == call.fn = fn /\ call.ret # Pending

\* the registry of the Gateway object of the call holds the symbol base/quote
InRegistry(base, quote) == <<base, quote>> \in exchange_markets(call.args.exchange)

\* C23 as stated: for fromCurrency # toCurrency the construction succeeds
\* exactly when exactly one of the orderings to/from and from/to is in the
\* registry, resolving to to/from as not reversed or to from/to as reversed,
\* and fails with MarketDoesNotExistsError on any other registry content.
C23_ExactlyOneOrdering ==
    Called("CurrencyConversion") /\ call.args.from_currency # call.args.to_currency =>
        LET from == call.args.from_currency
            to == call.args.to_currency
        IN  IF InRegistry(to, from) # InRegistry(from, to)
            THEN /\ call.ret.raised = None
                 /\ InRegistry(to, from) =>
                       /\ Returned_value(call.ret).converting_symbol = <<to, from>>
                       /\ ~Returned_value(call.ret).is_symbol_reversed
                 /\ InRegistry(from, to) =>
                       /\ Returned_value(call.ret).converting_symbol = <<from, to>>
                       /\ Returned_value(call.ret).is_symbol_reversed
            ELSE call.ret = Raises("MarketDoesNotExistsError")

\* C23 (amended): for fromCurrency # toCurrency the construction succeeds
\* exactly when at least one of the orderings to/from and from/to is in the
\* registry: it resolves to to/from as not reversed whenever to/from is there
\* (also when from/to is there too) and to from/to as reversed when only
\* from/to is there; when neither is there the construction fails with
\* MarketDoesNotExistsError.
C23_SomeOrdering ==
    Called("CurrencyConversion") /\ call.args.from_currency # call.args.to_currency =>
        LET from == call.args.from_currency
            to == call.args.to_currency
        IN  IF InRegistry(to, from)
            THEN /\ call.ret.raised = None
                 /\ Returned_value(call.ret).converting_symbol = <<to, from>>
                 /\ ~Returned_value(call.ret).is_symbol_reversed
            ELSE IF InRegistry(from, to)
            THEN /\ call.ret.raised = None
                 /\ Returned_value(call.ret).converting_symbol = <<from, to>>
                 /\ Returned_value(call.ret).is_symbol_reversed
            ELSE call.ret = Raises("MarketDoesNotExistsError")

\* C23 witness: both orderings are in the registry and the conversion was
\* constructed, on to/from as not reversed
C23_Witness ==
    /\ Called("CurrencyConversion")
    /\ call.args.from_currency # call.args.to_currency
    /\ InRegistry(call.args.to_currency, call.args.from_currency)
    /\ InRegistry(call.args.from_currency, call.args.to_currency)
    /\ call.ret.raised = None
    /\ ~Returned_value(call.ret).is_symbol_reversed

\* the currency pairs a command converts: the pair it trades and, for an
\* ExchangeCurrency, the pairs that express its amount and its balance in
\* in_currency
ConvertedPairs(fn, a) ==
    {<<a.from_currency, a.to_currency>>}
    \cup (IF fn # "ExchangeCurrency" THEN {}
          ELSE LET command == ExchangeCurrency(a.exchange, a.from_currency, a.to_currency, a.amount,
                                               a.in_currency, a.execute_till, a.margin)
                   buying == buying_currency_conversion(command, 0)
               IN  {<<buying.from_currency, buying.to_currency>>}
                   \cup (IF a.margin THEN {}
                         ELSE {<<a.from_currency, in_currency_or_to_currency(command)>>}))

\* C24: constructing a command with an unresolvable currency pair fails with
\* MarketDoesNotExistsError and constructing one with amount <= 0 fails with
\* AssertionError; both happen in the constructor, before any Gateway call,
\* and no command object is produced: a constructor that returned has
\* produced a command whose pairs all resolve, so that asking it for its
\* pre_conditions() cannot fail.
C24_ConstructionTimeValidation ==
    \A fn \in {"ExchangeCurrency", "ExchangeAllCurrency"} :
        Called(fn) =>
            LET a == call.args
                unresolvable == \E ft \in ConvertedPairs(fn, a) : Unresolvable(a.exchange, ft[1], ft[2])
            IN  /\ fn = "ExchangeCurrency" /\ ~RLt(Zero, a.amount) =>
                      call.ret = Raises("AssertionError")
                /\ unresolvable => call.ret.raised \in {"MarketDoesNotExistsError", "AssertionError"}
                /\ call.ret.raised = None => call.then.raised \in {"pending", None}
                /\ \A k \in DOMAIN reads : reads[k] = <<>>

\* C24 witness: a constructor returned a command, and the precondition pass
\* that asked it for its pre_conditions() got MarketDoesNotExistsError
C24_Witness ==
    /\ Called("ExchangeCurrency")
    /\ call.ret.raised = None
    /\ call.then = Raises("MarketDoesNotExistsError")
    /\ call.args.exchange = "ETH/USD ETH/BTC"
    /\ call.args.from_currency = "USD" /\ call.args.to_currency = "ETH"
    /\ call.args.in_currency = "BTC"

\* the preconditions of the batch built with a comparator that is not known
UnknownComparatorConditions ==
    {c \in UNION {pre_conditions(cmds, i) : i \in Cmds} :
        c.cls \in BaseConditions /\ c.comparator \notin ValidComparators}

\* some Gateway call has been issued
GatewayCalled ==
    \/ \E k \in DOMAIN reads : reads[k] # <<>>
    \/ \E e \in Venues : markets[e].load_markets # <<>>
    \/ \E i \in Cmds : Trace(i) # <<>>

\* C25: a configuration error is detected before any Gateway call is issued;
\* in particular a batch with a condition built with an unknown comparator
\* ends with InvalidConditionComparatorError, no command executes, and the
\* error is raised with no Gateway call issued.
C25_ConfigurationErrorsFirst ==
    /\ pc = "done" /\ UnknownComparatorConditions # {} =>
          /\ outcome.kind = "InvalidConditionComparatorError"
          /\ \A i \in Cmds : cst[i].pc = "init"
    /\ UnknownComparatorConditions # {} => \A i \in Cmds : cst[i].pc = "init"
    /\ outcome.kind = "InvalidConditionComparatorError" => ~GatewayCalled

\* C25 witness: the precondition pass of a batch with an unknown comparator
\* failed with InvalidConditionComparatorError after fetch_balance was read,
\* and no command executed
C25_Witness ==
    /\ outcome.kind = "InvalidConditionComparatorError"
    /\ UnknownComparatorConditions # {}
    /\ reads[<<"pre", "FTX", "fetch_balance">>] # <<>>
    /\ \A i \in Cmds : cst[i].pc = "init"
    /\ "pre" \notin DOMAIN result

\* C26: for a non-zero deadline the first Gateway call of
\* create_limit_order_with_timeout is a limit order priced at
\* bid + (ask - bid)/2 for a buy and at ask - (ask - bid)/2 for a sell, so
\* bid <= price <= ask whenever ask >= bid, strictly inside the spread when
\* ask > bid; it carries the requested amount, side and symbol.
C26_LimitPrice ==
    Called("create_limit_order_with_timeout") /\ call.args.execute_till # 0 =>
        LET a == call.args
            c == Returned_value(call.ret)
            half == RDiv(RSub(a.ask, a.bid), Num(2))
        IN  /\ c.pc = "limit_call"
            /\ Len(c.trace) = 1
            /\ IsOrder(c.trace[1], "limit")
            /\ c.trace[1].price = IF a.trading_side = "buy" THEN RAdd(a.bid, half)
                                  ELSE RSub(a.ask, half)
            /\ RLe(a.bid, a.ask) => RLe(a.bid, c.trace[1].price) /\ RLe(c.trace[1].price, a.ask)
            /\ RLt(a.bid, a.ask) => RLt(a.bid, c.trace[1].price) /\ RLt(c.trace[1].price, a.ask)
            /\ c.trace[1].amount = a.amount
            /\ c.trace[1].side = a.trading_side
            /\ c.trace[1].symbol = a.symbol

\* C26 witness: a sell with a finite deadline on a ticker with ask > bid was
\* placed as a limit order priced strictly inside the spread
C26_Witness ==
    /\ Called("create_limit_order_with_timeout")
    /\ call.args.execute_till = LongDeadline
    /\ call.args.trading_side = "sell"
    /\ RLt(call.args.bid, call.args.ask)
    /\ IsOrder(Returned_value(call.ret).trace[1], "limit")
    /\ RLt(call.args.bid, Returned_value(call.ret).trace[1].price)
    /\ RLt(Returned_value(call.ret).trace[1].price, call.args.ask)

\* the conversion object of the convert_amount call
Conversion ==
    CurrencyConversion(call.args.exchange, call.args.from_currency, call.args.to_currency, 0)

\* C27: convert_amount(a) from X to Y returns a times the ask price of the
\* resolved symbol when the symbol is reversed (market X/Y) and a divided by
\* the bid price when it is not reversed (market Y/X); the result does not
\* depend on the other price side of the ticker.
C27_ConvertAmount ==
    Called("convert_amount") /\ call.args.from_currency # call.args.to_currency =>
        LET a == call.args
            value == Returned_value(call.ret)
        IN  IF Conversion.is_symbol_reversed
            THEN /\ Conversion.converting_symbol = <<a.from_currency, a.to_currency>>
                 /\ InRegistry(a.from_currency, a.to_currency)
                 /\ value = RMul(a.amount, a.ask)
                 /\ \A bid \in Prices :
                       convert_amount(Conversion, a.amount,
                                      TickerResponse(Conversion.converting_symbol, a.ask, bid)) = value
            ELSE /\ Conversion.converting_symbol = <<a.to_currency, a.from_currency>>
                 /\ InRegistry(a.to_currency, a.from_currency)
                 /\ value = RDiv(a.amount, a.bid)
                 /\ \A ask \in Prices :
                       convert_amount(Conversion, a.amount,
                                      TickerResponse(Conversion.converting_symbol, ask, a.bid)) = value

\* C27 witness: an amount other than zero was converted over a reversed
\* symbol whose ask and bid differ
C27_Witness ==
    /\ Called("convert_amount")
    /\ Conversion.is_symbol_reversed
    /\ call.args.amount # Zero
    /\ call.args.ask # call.args.bid
    /\ Returned_value(call.ret) = RMul(call.args.amount, call.args.ask)
    /\ Returned_value(call.ret) # RMul(call.args.amount, call.args.bid)

\* the conversion object that converts the result of the call back
ConversionBack ==
    CurrencyConversion(call.args.exchange, call.args.to_currency, call.args.from_currency, 1)

\* the amount was converted from X to Y and back, X # Y
ConvertedBack ==
    /\ Called("convert_amount")
    /\ call.then # Pending
    /\ call.args.from_currency # call.args.to_currency

\* C28 as stated: converting a from X to Y and back against the same ticker
\* snapshot yields a * ask / bid, which equals a if and only if bid == ask
\* and is strictly more than a when bid < ask.
C28_RoundTripAsStated ==
    ConvertedBack =>
        LET a == call.args
            back == Returned_value(call.then)
        IN  /\ back = RDiv(RMul(a.amount, a.ask), a.bid)
            /\ back = a.amount <=> a.bid = a.ask
            /\ RLt(a.bid, a.ask) => RLt(a.amount, back)

\* C28 (amended): when both directions resolve to the same symbol (one
\* ordering of the pair is in the registry), converting a from X to Y and
\* back against the same ticker snapshot yields a * ask / bid, which equals a
\* if and only if bid == ask or a = 0; for bid < ask the round trip returns
\* strictly more than a when a > 0 and strictly less than a when a < 0.
C28_RoundTrip ==
    ConvertedBack /\ Conversion.converting_symbol = ConversionBack.converting_symbol =>
        LET a == call.args
            back == Returned_value(call.then)
        IN  /\ back = RDiv(RMul(a.amount, a.ask), a.bid)
            /\ back = a.amount <=> (a.bid = a.ask \/ a.amount = Zero)
            /\ RLt(a.bid, a.ask) /\ RLt(Zero, a.amount) => RLt(a.amount, back)
            /\ RLt(a.bid, a.ask) /\ RLt(a.amount, Zero) => RLt(back, a.amount)

\* C28 witness: a positive amount went there and back over one symbol with
\* bid < ask and came back larger
C28_Witness ==
    /\ ConvertedBack
    /\ Conversion.converting_symbol = ConversionBack.converting_symbol
    /\ RLt(call.args.bid, call.args.ask)
    /\ RLt(Zero, call.args.amount)
    /\ RLt(call.args.amount, Returned_value(call.then))

\* the commands of the batch that exchange one currency for another
ExchangeCommands == {i \in Cmds : cmds[i].cls \in {"ExchangeCurrency", "ExchangeAllCurrency"}}

\* every execute() of the batch returned and execute_commands went on
ExecutionSucceeded ==
    /\ pc \in {"post_pass", "done"}
    /\ Cmds # {}
    /\ \A i \in Cmds : cst[i].pc = "returned"

\* the free balance of a currency in the snapshot command i got in a phase
FreeBalance(i, phase, currency) == get_currency_balance(cmd_resp[i][phase], currency)

\* "free balance of the from-currency < its pre-pass free balance" and "free
\* balance of the to-currency > its pre-pass free balance" of command i, as
\* structural identities
DecreasedAndIncreased(i) ==
    {<<"BalanceCondition", cmds[i].exchange, <<cmds[i].from_currency, NoSymbol, None>>, "<",
       FreeBalance(i, "pre", cmds[i].from_currency)>>,
     <<"BalanceCondition", cmds[i].exchange, <<cmds[i].to_currency, NoSymbol, None>>, ">",
       FreeBalance(i, "pre", cmds[i].to_currency)>>}

\* C29: once execution succeeded, the postconditions of every ExchangeCurrency
\* and ExchangeAllCurrency are "free from-currency balance < its pre-pass
\* value" and "free to-currency balance > its pre-pass value", and they are
\* what the postcondition pass evaluates; when the post-pass balances equal
\* the pre-pass balances, execute_commands ends with PostConditionError
\* listing exactly these two conditions of each such command.
C29_PostConditions ==
    ExecutionSucceeded =>
        /\ \A i \in ExchangeCommands :
              /\ "fetch_balance" \in DOMAIN cmd_resp[i].pre
              /\ Keys(ConditionsOf("post", i)) = DecreasedAndIncreased(i)
              /\ DecreasedAndIncreased(i) \subseteq Keys(condmap[cmds[i].exchange])
        /\ outcome.kind # "KeyError"
        /\ /\ pc = "done"
           /\ ExchangeCommands # {}
           /\ \A i \in ExchangeCommands :
                 cmd_resp[i].post["fetch_balance"] = cmd_resp[i].pre["fetch_balance"]
           => /\ outcome.kind = "PostConditionError"
              /\ Keys(outcome.failed_conditions)
                    = UNION {DecreasedAndIncreased(i) : i \in ExchangeCommands}

\* C29 witness: an ExchangeCurrency on margin placed its market order, the
\* order was accepted, and execute_commands ended with a KeyError instead of
\* evaluating the postconditions
C29_Witness ==
    /\ pc = "done"
    /\ outcome.kind = "KeyError"
    /\ \E i \in Cmds : /\ cmds[i].cls = "ExchangeCurrency" /\ cmds[i].margin
                       /\ cst[i].pc = "returned"
                       /\ Orders(i, "market") # {}
                       /\ "fetch_balance" \notin DOMAIN cmd_resp[i].pre
    /\ "post" \notin DOMAIN result

\* round and batch of the k-th call of execute_commands by the runner
Position(k) == <<run.calls[k].execution_count, run.calls[k].batch_count>>

\* the batch the runner's for loops come to after the batch of a position
Successor(position) ==
    IF position[2] < run.command_batches THEN <<position[1], position[2] + 1>>
    ELSE <<position[1] + 1, 1>>

\* the k-th call ended in a way that stops the runner
Stopping(k) ==
    \/ run.calls[k].outcome = "CommandExecutionError"
    \/ run.calls[k].outcome = "PostConditionError" /\ run.fail_on_postconditions

\* C30: the sequential runner calls execute_commands on the batches strictly
\* in the given order within each round, for count rounds: the first call is
\* batch 1 of round 1, a call is followed by the same batch again (the retry
\* of failed preconditions) or by the next batch in order, the next batch only
\* after the batch before it succeeded or failed its postconditions with
\* fail_on_postconditions=False; a CommandExecutionError, or a
\* PostConditionError with fail_on_postconditions=True, is the last call the
\* runner makes; the runner finishes normally only after every batch of every
\* round was called.
C30_SequentialRunner ==
    LET calls == run.calls
    IN  /\ \A k \in 1..Len(calls) :
              Position(k) \in (1..run.count) \X (1..run.command_batches)
        /\ calls # <<>> => Position(1) = <<1, 1>>
        /\ \A k \in 1..(Len(calls) - 1) :
              \/ /\ Position(k + 1) = Position(k)
                 /\ calls[k].outcome = "PreConditionError"
              \/ /\ Position(k + 1) = Successor(Position(k))
                 /\ \/ calls[k].outcome = "returned"
                    \/ calls[k].outcome = "PostConditionError" /\ ~run.fail_on_postconditions
        /\ \A k \in 1..Len(calls) :
              Stopping(k) => k = Len(calls) /\ run.pc = "returned"
        /\ run.pc = "finished" =>
              \A position \in (1..run.count) \X (1..run.command_batches) :
                  \E k \in 1..Len(calls) :
                      /\ Position(k) = position
                      /\ calls[k].outcome \in {"returned", "PostConditionError"}

\* C30 witness: the first batch succeeded, the second failed its
\* postconditions with fail_on_postconditions=True and the runner returned
\* with a round still to go
C30_Witness ==
    /\ run.pc = "returned"
    /\ run.fail_on_postconditions
    /\ run.count = 2 /\ run.command_batches = 2
    /\ Len(run.calls) = 2
    /\ run.calls[1].outcome = "returned"
    /\ Position(2) = <<1, 2>>
    /\ run.calls[2].outcome = "PostConditionError"

\* ---------------------------------------------------------------------------
\* C31
\* ---------------------------------------------------------------------------

\* the k-th call of execute_commands raised PreConditionError on a batch the
\* runner retries: the first batch of a round, fail_on_first_batch_precondition=False
Retried(k) ==
    /\ run.calls[k].outcome = "PreConditionError"
    /\ run.calls[k].batch_count = 1
    /\ ~run.fail_on_first_batch_precondition

\* the k-th call got past its preconditions: execute_commands returned or
\* raised PostConditionError, which it only does after executing the batch
PreConditionsPassed(k) == run.calls[k].outcome \in {"returned", "PostConditionError"}

\* C31: with fail_on_first_batch_precondition=False a PreConditionError on the
\* first batch of a round is followed by a call of that same batch, and every
\* call of another batch or round after it comes after a call of that batch
\* whose preconditions passed; every call between the failure and that call is
\* the same batch failing its preconditions again (so nothing is executed in
\* between).  A PreConditionError on any other batch, or on the first batch
\* with the flag True, is the last call and the runner has returned.
C31_FirstBatchRetry ==
    LET calls == run.calls
    IN  \A k \in 1..Len(calls) :
            calls[k].outcome = "PreConditionError" =>
                IF Retried(k)
                THEN /\ k < Len(calls) => Position(k + 1) = Position(k)
                     /\ k = Len(calls) =>
                            /\ run.pc = "call"
                            /\ <<run.execution_count, run.batch_count>> = Position(k)
                     /\ \A j \in (k + 1)..Len(calls) :
                            Position(j) # Position(k) =>
                                \E i \in (k + 1)..(j - 1) :
                                    /\ Position(i) = Position(k)
                                    /\ PreConditionsPassed(i)
                                    /\ \A h \in k..(i - 1) : Retried(h) /\ Position(h) = Position(k)
                ELSE /\ k = Len(calls)
                     /\ run.pc = "returned"

\* C31 witness: the first batch failed its preconditions twice, was run a
\* third time and passed, and the second batch then failed its preconditions,
\* which ended the runner with a round still to go
C31_Witness ==
    /\ run.pc = "returned"
    /\ ~run.fail_on_first_batch_precondition
    /\ run.count = 2 /\ run.command_batches = 2
    /\ Len(run.calls) = 4
    /\ Retried(1) /\ Retried(2)
    /\ Position(3) = <<1, 1>> /\ PreConditionsPassed(3)
    /\ Position(4) = <<1, 2>> /\ run.calls[4].outcome = "PreConditionError"

\* ---------------------------------------------------------------------------
\* C32
\* ---------------------------------------------------------------------------

\* some command's execute() raised
SomeExecuteRaised == \E i \in Cmds : cst[i].pc = "raised"

\* C32: once an execute() of the batch has raised, execute_commands never
\* reaches the settle delay or the postcondition pass: no post-pass Gateway
\* read is issued, no postcondition is requested or evaluated, nothing is
\* stored as post_condition_responses, and execute_commands ends with
\* CommandExecutionError, never with PostConditionError and never by
\* returning.
C32_NoPostPassAfterRaise ==
    SomeExecuteRaised =>
        /\ pc \in {"exec", "done"}
        /\ \A e \in Venues, m \in Methods : reads[<<"post", e, m>>] = <<>>
        /\ "post" \notin DOMAIN result
        /\ \A i \in Cmds : cmd_resp[i].post = EmptyMap
        /\ outcome.kind \in {NoOutcome.kind, "CommandExecutionError"}
        /\ outcome.failed_conditions = NoOutcome.failed_conditions
        /\ pc = "done" => outcome.kind = "CommandExecutionError"

\* C32 witness: of two commands one raised and the other returned after
\* placing its order, and execute_commands ended
C32_Witness ==
    /\ pc = "done"
    /\ \E i, j \in Cmds :
          /\ cst[i].pc = "raised"
          /\ cst[j].pc = "returned"
          /\ Orders(j, "limit") # {}

\* ---------------------------------------------------------------------------
\* C33
\* ---------------------------------------------------------------------------

\* command i runs create_limit_order_with_timeout with a deadline (zero or
\* positive, not None)
RunsWithDeadline(i) ==
    /\ i \in Cmds
    /\ Entered(i)
    /\ cmds[i].execute_till # NoTimeout

\* create_limit_order_with_timeout of command i returned or raised
ReturnedOrRaised(i) == i \in Cmds /\ Terminal(cst[i])

\* the polling loop of command i is alive: it sleeps or waits for fetch_order_status
Polling(i) == cst[i].pc \in {"sleeping", "polling"}

\* C33: a create_limit_order_with_timeout entered with a deadline eventually
\* returns or raises, whatever the order does (stays open, closes, is not
\* found, cannot be cancelled), given that each Gateway call answers; and the
\* polling loop is never alive after the deadline: while it sleeps or waits
\* for an answer the time spent is within the deadline, and every status
\* poll was issued within it.
C33_ExecuteTillTerminates ==
    /\ \A i \in Slots : [](RunsWithDeadline(i) => <>ReturnedOrRaised(i))
    /\ [](\A i \in Cmds :
            /\ Polling(i) => FiniteDeadline(i) /\ cst[i].elapsed <= cmds[i].execute_till
            /\ Cardinality(Events(i, "fetch_order_status")) * PollingInterval
                  <= IF FiniteDeadline(i) THEN cmds[i].execute_till ELSE 0)

\* C33 witness: the order stayed open at every poll until the deadline, was
\* cancelled, reported no fill, and the market order was placed: the request ended
C33_Witness ==
    \E i \in Cmds :
        /\ FiniteDeadline(i)
        /\ cst[i].pc = "returned"
        /\ Cardinality(Events(i, "fetch_order_status")) >= 2
        /\ \A k \in Events(i, "fetch_order_status") : Trace(i)[k].result = "open"
        /\ Events(i, "cancel_order") # {}
        /\ Orders(i, "market") # {}

\* ---------------------------------------------------------------------------
\* C34
\* ---------------------------------------------------------------------------

\* the precondition pass succeeded and the batch executes
PreConditionsSucceeded == pc = "exec" /\ Failures(result["pre"]) = {}

\* the condition object has been evaluated against the response map of the
\* pass: evaluate() has set its attributes from the responses of its venue
EvaluatedInPass(c) ==
    /\ c.oid \in DOMAIN attr
    /\ attr[c.oid].responses = ResponsesOf(resp, c.exchange)

\* C34 (as claimed): after a successful precondition pass every condition
\* object a command of the batch returned from pre_conditions() has been
\* evaluated against the pass's response map, also when an equal condition
\* of another command was deduplicated with it, so that no execute() fails
\* on a condition object without evaluated values.
C34_OwnConditionsEvaluated ==
    /\ PreConditionsSucceeded =>
          \A i \in Cmds : \A c \in pre_conditions(cmds, i) : EvaluatedInPass(c)
    /\ \A i \in Cmds : cst[i].error # "AttributeError"

\* C34 witness: two equal ExchangeAllCurrency commands on one venue; the
\* precondition pass succeeded, the first placed its order and the second
\* raised AttributeError on its own, never evaluated, condition object
C34_Witness ==
    /\ N = 2
    /\ cmds[1].cls = "ExchangeAllCurrency" /\ cmds[2].cls = "ExchangeAllCurrency"
    /\ CondEq(selling_currency_balance_condition(cmds, 1), selling_currency_balance_condition(cmds, 2))
    /\ pc = "done"
    /\ Failures(result["pre"]) = {}
    /\ selling_currency_balance_condition(cmds, 2).oid \notin DOMAIN attr
    /\ Orders(1, "market") # {}
    /\ cst[2].pc = "raised" /\ cst[2].error = "AttributeError"

\* ---------------------------------------------------------------------------
\* C35
\* ---------------------------------------------------------------------------

\* the symbol command i trades, whose ticker create_limit_order_with_timeout
\* reads from pre_condition_responses when the deadline is not zero
TradingSymbol(i) ==
    IF cmds[i].cls = "ExchangeCurrency" THEN trading_symbol_conversion(cmds[i], i).converting_symbol
    ELSE selling_currency_balance_condition(cmds, i).converting_symbol

\* some precondition of command i declares the call
DeclaresCall(i, m) == \E c \in pre_conditions(cmds, i) : m \in DOMAIN ccxt_methods(c)

\* every entry of the pre-phase response map that execute() and
\* post_conditions() of command i read is declared by its own preconditions
ReadsDeclared(i) ==
    /\ DeclaresCall(i, "fetch_balance")
    /\ ~SkipsPassivePhase(cmds[i].execute_till) =>
          /\ DeclaresCall(i, "fetch_tickers")
          /\ TradingSymbol(i) \in DeclaredBy("pre", i, "fetch_tickers")

\* C35 (as claimed): every entry of the pre-phase response map that
\* execute() and post_conditions() of an exchange command read was declared
\* by the command's own preconditions, so a batch of one command never fails
\* on a missing response entry (KeyError), neither in execute() nor when the
\* postconditions are built.
C35_ReadsDeclared ==
    (N = 1 /\ cmds[1].cls \in {"ExchangeAllCurrency", "ExchangeCurrency"} /\ pc # "start") =>
        /\ ReadsDeclared(1)
        /\ cst[1].error # "KeyError"
        /\ outcome.kind # "KeyError"

\* C35 witness: an ExchangeCurrency without margin whose amount is given in
\* a third currency and whose deadline is not zero: the preconditions passed,
\* the ticker of the trading symbol was not among the declared symbols and
\* execute() raised KeyError before placing any order
C35_Witness ==
    /\ N = 1
    /\ cmds[1].cls = "ExchangeCurrency" /\ ~cmds[1].margin /\ cmds[1].in_currency = "USD"
    /\ pc = "done"
    /\ Failures(result["pre"]) = {}
    /\ TradingSymbol(1) \notin DeclaredBy("pre", 1, "fetch_tickers")
    /\ cst[1].pc = "raised" /\ cst[1].error = "KeyError"
    /\ Trace(1) = <<>>

\* ---------------------------------------------------------------------------
\* C36
\* ---------------------------------------------------------------------------

\* the filled quantity fetch_order reported to command i after the
\* cancellation (the answer of its fetch_order call)
ReportedFilled(i) == {Trace(i)[k].filled : k \in {j \in Events(i, "fetch_order") : Trace(i)[j].result = "ok"}}

\* C36 (as claimed): every market order that is placed has a strictly
\* positive amount, whatever filled quantity between zero and the requested
\* amount fetch_order reported after the successful cancellation.
C36_MarketAmountPositive ==
    \A i \in Cmds : \A k \in Orders(i, "market") : RLt(Zero, Trace(i)[k].amount)

\* C36 witness: the passive order of a positive amount was cancelled at the
\* deadline, fetch_order reported it filled in full, and a market order of
\* amount zero was sent
C36_Witness ==
    \E i \in Cmds :
        /\ \E k \in Orders(i, "limit") : RLt(Zero, Trace(i)[k].amount) /\ ReportedFilled(i) = {Trace(i)[k].amount}
        /\ \E k \in Events(i, "cancel_order") : Trace(i)[k].result = "ok"
        /\ \E k \in Orders(i, "market") : Trace(i)[k].amount = Zero

\* ---------------------------------------------------------------------------
\* C37
\* ---------------------------------------------------------------------------

\* commands i and j are two ExchangeCurrency without margin that spend the
\* same currency of the same venue for the same currency
SameFunds(i, j) ==
    /\ i # j
    /\ cmds[i].cls = "ExchangeCurrency" /\ cmds[j].cls = "ExchangeCurrency"
    /\ ~cmds[i].margin /\ ~cmds[j].margin
    /\ cmds[i].exchange = cmds[j].exchange
    /\ cmds[i].from_currency = cmds[j].from_currency
    /\ cmds[i].to_currency = cmds[j].to_currency
    /\ in_currency_or_to_currency(cmds[i]) = in_currency_or_to_currency(cmds[j])

\* the precondition pass has stored its snapshot on command i
HasSnapshot(i) == "fetch_balance" \in DOMAIN cmd_resp[i].pre

\* the balance the snapshot of command i holds, in the currency of the amounts
SnapshotBalance(i) ==
    balance_amount_in_currency(ExchangeCurrency_balance_condition(cmds[i], i), cmd_resp[i].pre)

\* the snapshot balance covers each of the two amounts but not their sum
Overcommitted(i, j) ==
    /\ RLe(cmds[i].amount, SnapshotBalance(i))
    /\ RLe(cmds[j].amount, SnapshotBalance(i))
    /\ RLt(SnapshotBalance(i), RAdd(cmds[i].amount, cmds[j].amount))

\* the amount execute() of command i gives to its order, from its snapshot
SizedFromSnapshot(i) ==
    convert_amount(buying_currency_conversion(cmds[i], i), cmds[i].amount, cmd_resp[i].pre)

\* C37: preconditions are evaluated one by one against the shared snapshot
\* of the pass and nothing is reserved: when two commands of a batch spend
\* the same currency of one venue and the snapshot balance covers each amount
\* alone but not both, both preconditions succeed, the batch passes the gate
\* and both commands execute, each with an order sized from that snapshot.
C37_NoReservation ==
    \A i, j \in Cmds :
        (SameFunds(i, j) /\ HasSnapshot(i) /\ HasSnapshot(j) /\ Overcommitted(i, j)) =>
            /\ cmd_resp[i].pre = cmd_resp[j].pre
            /\ \A k \in {i, j} :
                  CondKey(ExchangeCurrency_balance_condition(cmds[k], k))
                      \in Keys(result["pre"].successful)
            /\ Failures(result["pre"]) = {}
            /\ outcome.kind # "PreConditionError"
            /\ pc \in {"exec", "sleep", "post_pass", "done"}
            /\ \A k \in {i, j} :
                  /\ cst[k].pc # "init" =>
                        /\ Trace(k) # <<>>
                        /\ IsOrder(Trace(k)[1], "market")
                        /\ Trace(k)[1].amount = SizedFromSnapshot(k)
                  /\ pc # "exec" => cst[k].pc # "init"

\* C37 witness: the snapshot balance is worth 3/4, the commands ask for 1/2
\* and 3/4; both passed, both placed their order, and the two orders
\* together ask for more than the snapshot balance is worth
C37_Witness ==
    /\ N = 2
    /\ SameFunds(1, 2) /\ HasSnapshot(1) /\ Overcommitted(1, 2)
    /\ cmds[1].amount # cmds[2].amount
    /\ \A k \in {1, 2} : cst[k].pc = "returned" /\ Orders(k, "market") # {}
    /\ RLt(SnapshotBalance(1), RAdd(Trace(1)[1].amount, Trace(2)[1].amount))

\* ---------------------------------------------------------------------------
\* C38
\* ---------------------------------------------------------------------------

\* the tasks of the current pass whose Gateway call raised
RaisedReads == {em \in DOMAIN tasks : tasks[em].st = "raised"}

\* C38: a Gateway read is attempted once per pass: a read that raised was
\* issued once and is not issued again.  Its error is surfaced unchanged:
\* execute_commands ends with the error the read raised, not with
\* PreConditionError or PostConditionError and not by returning, and the
\* failed pass evaluates nothing and stores nothing.  If the failed pass is
\* the precondition pass no command has executed (no Gateway call of any
\* execute() was made); if it is the postcondition pass every execute() has
\* completed, so the batch's orders were already placed.
C38_ReadErrorsSurface ==
    /\ \A phase \in {"pre", "post"}, e \in Venues, m \in Methods : Len(reads[<<phase, e, m>>]) <= 1
    /\ RaisedReads # {} =>
          /\ pc = "done"
          /\ outcome.kind \in {tasks[em].response.error : em \in RaisedReads}
          /\ outcome.failed_conditions = {} /\ outcome.failed_commands_dict = EmptyMap
          /\ FailedPhase \notin DOMAIN result
          /\ \A i \in Cmds : cmd_resp[i][FailedPhase] = EmptyMap
          /\ FailedPhase = "pre" => \A i \in Cmds : cst[i].pc = "init" /\ Trace(i) = <<>>
          /\ FailedPhase = "post" => \A i \in Cmds : cst[i].pc = "returned"
    /\ outcome.kind \in ReadErrors => RaisedReads # {}

\* C38 witness: the preconditions passed, the command placed its order, and
\* a read of the postcondition pass raised: execute_commands ended with that
\* error, with the order placed and no postcondition evaluated
C38_Witness ==
    /\ pc = "done"
    /\ outcome.kind = "NetworkError"
    /\ FailedPhase = "post"
    /\ \E em \in RaisedReads : Len(reads[<<"post", em[1], em[2]>>]) = 1
    /\ \E i \in Cmds : Orders(i, "market") # {} /\ cst[i].pc = "returned"

\* ---------------------------------------------------------------------------
\* C39
\* ---------------------------------------------------------------------------

\* the runner has ended: it ran every round, returned early, or an error left it
RunnerTerminated == run.pc \in {"finished", "returned", "raised"}

\* the calls of execute_commands that were retried afterwards
Retries == {k \in 1..Len(run.calls) : Retried(k)}

\* the runner is about to call execute_commands beyond the calls the model follows
CallsExhausted == run.pc = "call" /\ Len(run.calls) = MaxCalls

\* C39: the runner calls execute_commands at most count * (number of
\* batches) times plus once for every retry of a first batch; with
\* fail_on_first_batch_precondition=True there is no retry, the bound is
\* count * (number of batches) and the runner always terminates; with the
\* flag False it terminates unless the retries go on beyond the calls the
\* model follows, which only a run with retries can reach.
C39_RunnerTerminates ==
    /\ [](Len(run.calls) <= run.count * run.command_batches + Cardinality(Retries))
    /\ [](run.fail_on_first_batch_precondition =>
             Retries = {} /\ Len(run.calls) <= run.count * run.command_batches)
    /\ [](run.fail_on_first_batch_precondition => <>RunnerTerminated)
    /\ <>(RunnerTerminated \/ CallsExhausted)
    /\ [](CallsExhausted => ~run.fail_on_first_batch_precondition /\ Retries # {})

\* C39 witness: with the flag False the first batch of the second round
\* failed its preconditions once, passed at the retry, and the runner
\* finished after count * batches + 1 calls
C39_Witness ==
    /\ run.pc = "finished"
    /\ ~run.fail_on_first_batch_precondition
    /\ run.count = 2 /\ run.command_batches = 2
    /\ Retries = {3}
    /\ Len(run.calls) = 5

\* ---------------------------------------------------------------------------
\* C40
\* ---------------------------------------------------------------------------

\* the batch in progress was given to execute_commands before: the call is a
\* retry, or the batch was run in an earlier round
Reexecuted ==
    /\ run.pc = "awaiting"
    /\ \E k \in 1..(Len(run.calls) - 1) : run.calls[k].batch_count = run.batch_count

\* the responses of the venue of command i in the precondition pass of the
\* call in progress (resp holds them until the postcondition pass is evaluated)
OwnSnapshot(i) == ResponsesOf(resp, cmds[i].exchange)

\* C40 (as claimed): when a batch is executed again, after its precondition
\* pass each command carries the response map of that pass, every order it
\* places has the side and the amount computed from that response map, and
\* the postconditions requested for it have the thresholds of that response
\* map: nothing comes from the snapshot of an earlier call.
C40_OwnSnapshot ==
    (Reexecuted /\ pc \in {"exec", "sleep", "post_pass"}) =>
        \A i \in Cmds :
            /\ cmd_resp[i].pre = OwnSnapshot(i)
            /\ \A k \in Orders(i, "market") :
                  /\ Trace(i)[k].side = OwnSide(i)
                  /\ Trace(i)[k].amount = RequestedAmount(i)
            /\ pc = "post_pass" =>
                  Keys(post_conditions(cmds, i, OwnSnapshot(i))) \subseteq Keys(condmap[cmds[i].exchange])

\* C40 witness: batches ([a], [b, a]) in the second round: b and a hold
\* equal conditions, only b's is evaluated in the pass of the second batch,
\* and a places an order whose amount is the one its condition object kept
\* from the call before, which differs from what the snapshot of the pass
\* in progress gives
C40_Witness ==
    /\ Reexecuted
    /\ run.execution_count = 2 /\ run.batch_count = 2
    /\ run.layout[2] = <<"b", "a">>
    /\ pc = "sleep"
    /\ LET before == run.objects[<<"a", "selling_currency_balance_condition">>]
       IN  /\ before.responses # OwnSnapshot(2)
           /\ Trace(2)[1].amount = before.balance_amount_in_currency
           /\ Trace(2)[1].amount # RequestedAmount(2)
           /\ Trace(1)[1].amount = RequestedAmount(1)

=============================================================================
